---- MODULE Spec2Model ----
(***************************************************************************)
(* The agents and utilities of shorts-generator.                           *)
(*                                                                         *)
(*   VideoAgent  (src/agents/video_agent.py): initialize, generate_video,  *)
(*               _create_fallback_video, _create_gif_video,                *)
(*               _create_simple_video, _hsv_to_rgb.                        *)
(*   AudioAgent  (src/agents/audio_agent.py): add_audio,                   *)
(*               _create_advanced_music and its melody / harmony / rhythm  *)
(*               loops, the mixing and the audio/video merge.              *)
(*   DatabaseManager (src/utils/database.py): table `content`.             *)
(*   ContentScheduler (src/utils/scheduler.py): the upload queue, the      *)
(*               daily-generation test and the next upload time.           *)
(*   ContentAgent (src/agents/content_agent.py): generate_ideas.           *)
(*   ShortVideoGenerator (src/main.py): run_main_loop.                     *)
(*   RateLimiter (src/utils/rate_limiter.py): wait_if_needed.              *)
(*                                                                         *)
(* Times of the audio part are integers in milliseconds, as pydub counts   *)
(* them.  Files are named by the kind of path the code builds.             *)
(***************************************************************************)
EXTENDS Integers, Naturals, Sequences, FiniteSets, TLC

(***************************************************************************)
(* Bounds of the model.                                                    *)
(***************************************************************************)
MaxDuration == 2      \* generate_video is called with duration 0..MaxDuration
MaxFps == 2           \* settings.video_fps ranges over 1..MaxFps
MaxCalls == 2         \* generate_video calls on one VideoAgent
MaxMusicDuration == 2 \* _create_advanced_music is called with 0..MaxMusicDuration
MaxLayerMs == 4       \* _mix_music_layers is called with layers of 0..MaxLayerMs ms
MaxSaves == 3         \* save_content calls on one database

(***************************************************************************)
(* Program constants.                                                      *)
(***************************************************************************)
SimpleFps == 3        \* _create_simple_video: range(duration * 3)
PuppyFps == 10        \* create_puppy_frames(..., fps=10)

Resolutions == {<<4, 6>>, <<3, 3>>}

Themes == {"cat", "dog", "pet", "other"}

Max(a, b) == IF a >= b THEN a ELSE b
Min(a, b) == IF a <= b THEN a ELSE b

VARIABLES
    \* ---- VideoAgent ----
    v_pc,             \* position of the agent / of the running generate_video
    is_initialized,
    image_generator,  \* TRUE when a pipeline object is held
    video_generator,
    fps,
    resolution,
    prompt,           \* theme class of the prompt of the running call
    duration,
    i,                \* loop index of the frame loop
    frames,           \* the frame list of _create_fallback_video
    frame_paths,      \* indexes of the stills this call wrote to temp_frames
    temp_files,       \* indexes of the stills present in temp_frames
    result,           \* the returned path, "none" before the return
    raised,           \* generate_video ended by raising
    trail,            \* what the running call went through
    calls,
    \* ---- AudioAgent ----
    a_pc,             \* position of the running add_audio / music request
    entry,            \* "add_audio" or "music": the request being served
    style,            \* the music style name that was asked for
    music_duration,   \* `duration` of _create_advanced_music, in seconds
    melody,           \* length of the melody segment, ms
    melody_time,      \* current_time of _generate_melody, ms
    harmony,          \* length of the harmony segment, ms
    harmony_time,     \* current_time of _generate_harmony, ms
    note_duration,    \* the last note / chord duration that was added, ms
    rhythm,           \* length of the rhythm segment, ms
    beats,            \* passes of the loop of _generate_rhythm so far
    last_hit,         \* beat slot and start offset of the last hit added
    music,            \* the music file: [kind, len]
    voice,            \* the voice file: [kind, len]
    combined,         \* the combined audio file: [kind, len]
    video_path,       \* the video handed to add_audio
    script,           \* the script handed to add_audio: its words' lengths
    merged,           \* what _merge_audio_video wrote, or NoMerge
    a_result,         \* the path add_audio returned, NoVideo before
    a_trail,          \* what the running request went through
    \* ---- AudioAgent helpers called on their own ----
    music_call,       \* the last helper call: [fn, args, ret]
    \* ---- frame rendering and colour conversion on their own ----
    runs,             \* two runs of a frame loop: [kind, duration, i, frames]
    hsv_call,         \* the last _hsv_to_rgb call: [args, ret]
    \* ---- DatabaseManager ----
    connection,       \* self.connection is an open sqlite3 connection
    content_rows,     \* the rows of table `content` in shorts.db
    db_clock,         \* datetime.now(), counted in save_content calls
    last_saved,       \* per id: the content of the last save that returned
                      \* True, and how many saves returned True
    db_call,          \* the last call: [fn, arg, ok, ret, connected]
    \* ---- ContentScheduler ----
    content_queue,    \* self.content_queue, a list of content dicts
    last_generation,  \* self.last_generation: None or a datetime
    last_upload,      \* self.last_upload: None or a datetime
    sched_call,       \* the last call: [fn, arg, before, logged, ret]
    sched_now,        \* datetime.now(), in ticks of two hours
    \* ---- ContentScheduler.get_next_upload_time on its own ----
    upload_time_call, \* the last call: [now, ret]
    \* ---- ContentAgent.generate_ideas ----
    g_pc,             \* position of the running generate_ideas
    g_count,          \* its count argument
    g_theme,          \* its theme argument
    g_i,              \* loop index i
    g_ideas,          \* the list ideas
    g_ret,            \* [path, ideas] once it returned
    \* ---- ShortVideoGenerator.run_main_loop ----
    m_pc,             \* position of the main loop
    m_cycles,         \* passes of the loop so far
    m_ideas,          \* ideas generate_daily_content still has to process
    queued_content,   \* the copy of the queue run_upload_cycle iterates
    m_k,              \* index of its for loop
    upload_log,       \* the calls of upload_to_all_platforms: [cycle, id]
    m_generated_on,   \* day generate_daily_content last ran on, -1 once
                      \* marked needed
    \* ---- RateLimiter ----
    clock,            \* time.time(), in seconds
    request_counts,   \* self.request_counts[platform], oldest first
    last_request_times,\* self.last_request_times[platform]
    co,               \* per caller: the position, locals and result of its wait_if_needed
    grants,           \* the calls that returned True: [time, stamp, caller]
    l_calls,          \* calls of wait_if_needed so far
    idle_gap          \* time went by since the last call was made

videoVars == <<v_pc, is_initialized, image_generator, video_generator, fps,
               resolution, prompt, duration, i, frames, frame_paths,
               temp_files, result, raised, trail, calls>>

audioVars == <<a_pc, entry, style, music_duration, melody, melody_time,
               harmony, harmony_time, note_duration, rhythm, beats, last_hit,
               music, voice, combined, video_path, script, merged, a_result,
               a_trail>>

helperVars == <<music_call>>

renderVars == <<runs>>

colorVars == <<hsv_call>>

dbVars == <<connection, content_rows, db_clock, last_saved, db_call>>

schedVars == <<content_queue, last_generation, last_upload, sched_call,
               sched_now>>

timeVars == <<upload_time_call>>

ideaVars == <<g_pc, g_count, g_theme, g_i, g_ideas, g_ret>>

mainVars == <<m_pc, m_cycles, m_ideas, queued_content, m_k, upload_log,
               m_generated_on>>

limiterVars == <<clock, request_counts, last_request_times, co, grants, l_calls,
                  idle_gap>>

vars == <<videoVars, audioVars, helperVars, renderVars, colorVars, dbVars,
          schedVars, timeVars, ideaVars, mainVars, limiterVars>>

\* What an action of one agent leaves alone.
nonVideoVars == <<audioVars, helperVars, renderVars, colorVars, dbVars,
                  schedVars, timeVars, ideaVars, mainVars, limiterVars>>
nonAudioVars == <<videoVars, helperVars, renderVars, colorVars, dbVars,
                  schedVars, timeVars, ideaVars, mainVars, limiterVars>>
nonHelperVars == <<videoVars, audioVars, renderVars, colorVars, dbVars,
                   schedVars, timeVars, ideaVars, mainVars, limiterVars>>
nonRenderVars == <<videoVars, audioVars, helperVars, colorVars, dbVars,
                   schedVars, timeVars, ideaVars, mainVars, limiterVars>>
nonColorVars == <<videoVars, audioVars, helperVars, renderVars, dbVars,
                  schedVars, timeVars, ideaVars, mainVars, limiterVars>>
nonDbVars == <<videoVars, audioVars, helperVars, renderVars, colorVars,
               schedVars, timeVars, ideaVars, mainVars, limiterVars>>
nonSchedVars == <<videoVars, audioVars, helperVars, renderVars, colorVars,
                  dbVars, timeVars, ideaVars, mainVars, limiterVars>>
nonTimeVars == <<videoVars, audioVars, helperVars, renderVars, colorVars,
                 dbVars, schedVars, ideaVars, mainVars, limiterVars>>
nonIdeaVars == <<videoVars, audioVars, helperVars, renderVars, colorVars,
                 dbVars, schedVars, timeVars, mainVars, limiterVars>>
\* the main loop drives the scheduler
nonMainVars == <<videoVars, audioVars, helperVars, renderVars, colorVars,
                 dbVars, timeVars, ideaVars, limiterVars>>
nonLimiterVars == <<videoVars, audioVars, helperVars, renderVars, colorVars,
                    dbVars, schedVars, timeVars, ideaVars, mainVars>>

(***************************************************************************)
(* Helpers.                                                                *)
(***************************************************************************)
Range(s) == {s[k] : k \in 1..Len(s)}

FpsValues == (1..MaxFps) \cup {PuppyFps}

\* A path under output/videos: the code builds it from the kind of file,
\* the (sanitised) prompt and the duration; simple_<d>s.gif has no prompt.
Mp4Path(p, d) == [kind |-> "mp4", prompt |-> p, duration |-> d]
GifPath(p, d) == [kind |-> "gif", prompt |-> p, duration |-> d]
SimplePath(d) == [kind |-> "simple_gif", prompt |-> "", duration |-> d]
NoPath == [kind |-> "none", prompt |-> "", duration |-> 0]

\* What one generate_video call has gone through so far.
NoTrail == [ai_attempted |-> FALSE, ai_raised |-> FALSE,
            fallback_ran |-> FALSE, fallback_raised |-> FALSE,
            fallback_returned |-> NoPath,
            ffmpeg |-> "none", ffmpeg_calls |-> 0, gif_encodes |-> 0,
            simple_ran |-> FALSE, simple_io_failed |-> FALSE,
            written |-> {}]

(***************************************************************************)
(* VideoAgent.initialize: GPU attempt (when a GPU is usable), then CPU     *)
(* attempt, then the model-less mode.  Each attempt assigns                *)
(* image_generator before it loads video_generator, so a failure of the    *)
(* second load leaves the first assigned.                                  *)
(***************************************************************************)
GpuOutcomes == {"no_gpu", "ok", "fail_image", "fail_video"}
CpuOutcomes == {"ok", "fail_image", "fail_video"}

InitImage(old, gpu, cpu) ==
    \/ old
    \/ gpu \in {"ok", "fail_video"}
    \/ gpu # "ok" /\ cpu \in {"ok", "fail_video"}

InitVideo(old, gpu, cpu) ==
    \/ old
    \/ gpu = "ok"
    \/ gpu # "ok" /\ cpu = "ok"

DoInitialize(gpu, cpu) ==
    /\ image_generator' = InitImage(image_generator, gpu, cpu)
    /\ video_generator' = InitVideo(video_generator, gpu, cpu)
    /\ is_initialized' = TRUE

(***************************************************************************)
(* _hsv_to_rgb.  The float arithmetic is carried out exactly: h is given   *)
(* in units of 1/u degree, s and v in percent, and int() truncates the     *)
(* exact product towards zero.  (IEEE rounding can land one below where    *)
(* the exact product is a whole number; it never leaves the range the      *)
(* exact value lies in.)                                                   *)
(***************************************************************************)
\* int(n / d) for d > 0
Trunc(n, d) == IF n >= 0 THEN n \div d ELSE -((-n) \div d)

\* Python's a % b for b > 0
PyMod(a, b) == ((a % b) + b) % b

\* int(v * 255) after v = v / 100.0
ChanV(v) == Trunc(255 * v, 100)

\* int(p * 255), p = v * (1.0 - s)
ChanP(s, v) == Trunc(255 * v * (100 - s), 10000)

\* int(q * 255), q = v * (1.0 - s * f), f = fnum / (60 u)
ChanQ(fnum, u, s, v) ==
    Trunc(255 * v * (6000 * u - s * fnum), 600000 * u)

ChanT_added(fnum, u, s, v) ==
    Trunc(255 * v * (6000 * u + s * (60 * u - fnum)), 600000 * u)

\* int(t * 255), t = v * (1.0 - s * (1.0 - f))
ChanT(fnum, u, s, v) ==
    Trunc(255 * v * (6000 * u - s * (60 * u - fnum)), 600000 * u)

hsv_to_rgb_units(h, u, s, v) ==
    IF s = 0 THEN <<ChanV(v), ChanV(v), ChanV(v)>>
    ELSE LET whole == Trunc(h, 60 * u)      \* i = int(h * 6.0)
             fnum == h - 60 * u * whole     \* f = (h * 6.0) - i
             sector == PyMod(whole, 6)      \* i = i % 6
         IN  CASE sector = 0 -> <<ChanV(v), ChanT(fnum, u, s, v), ChanP(s, v)>>
               [] sector = 1 -> <<ChanQ(fnum, u, s, v), ChanV(v), ChanP(s, v)>>
               [] sector = 2 -> <<ChanP(s, v), ChanV(v), ChanT(fnum, u, s, v)>>
               [] sector = 3 -> <<ChanP(s, v), ChanQ(fnum, u, s, v), ChanV(v)>>
               [] sector = 4 -> <<ChanT(fnum, u, s, v), ChanP(s, v), ChanV(v)>>
               [] OTHER -> <<ChanV(v), ChanP(s, v), ChanQ(fnum, u, s, v)>>

\* _hsv_to_rgb(h, s, v) with h in whole degrees
hsv_to_rgb(h, s, v) == hsv_to_rgb_units(h, 1, s, v)

(***************************************************************************)
(* The frame loop of _create_fallback_video and of create_puppy_frames.    *)
(***************************************************************************)
NumFrames_one_more(d, f) == d * f + 1

NumFrames(d, f) == d * f

\* One rendered frame of _create_fallback_video: Image.new('RGB',
\* self.resolution), drawn from the loop index and the resolution:
\* time_factor = i * 0.1 (in tenths), hue = (i * 15) % 360, the colour of
\* the main circle and those of the three orbiting circles.
Frame(idx, res) ==
    LET hue == (idx * 15) % 360
    IN  [kind |-> "fallback", index |-> idx, size |-> res,
         time_factor |-> idx, hue |-> hue,
         main_color |-> hsv_to_rgb(hue, 80, 90),
         shape_colors |-> [j \in 1..3 |->
             hsv_to_rgb((hue + (j - 1) * 120) % 360, 70, 80)]]

\* One rendered frame of _create_simple_video: time_factor = i * 0.2 (in
\* tenths); hue (in tenths of a degree) is the hue of the last pixel of the
\* wave pattern of this frame, (i * 20 + x * 0.5 + y * 0.3) % 360 at
\* x = width - 1, y = height - 1, which colours the squares and circles.
SimpleFrame(idx, res) ==
    LET hue == (idx * 200 + (res[1] - 1) * 5 + (res[2] - 1) * 3) % 3600
    IN  [kind |-> "simple", index |-> idx, size |-> res,
         time_factor |-> 2 * idx, hue |-> hue,
         main_color |-> hsv_to_rgb_units((hue + 1800) % 3600, 10, 80, 90),
         shape_colors |-> [k \in 1..3 |->
             hsv_to_rgb_units((hue + (k - 1) * 1200) % 3600, 10, 90, 100)]]

RenderFrame_progress(kind, idx, res, n, acc) ==
    IF kind = "simple"
      THEN [SimpleFrame(idx, res) EXCEPT !.time_factor = (10 * idx) \div n]
      ELSE [Frame(idx, res) EXCEPT !.time_factor = (10 * idx) \div n]

\* The body of the frame loop of _create_fallback_video ("fallback") or of
\* _create_simple_video ("simple"), for index idx: n is the number of
\* frames of the loop and acc the frames rendered before, both in scope of
\* the body; it reads neither.
RenderFrame(kind, idx, res, n, acc) ==
    IF kind = "simple" THEN SimpleFrame(idx, res) ELSE Frame(idx, res)

\* The loop `for i in range(n): ...; frames.append(frame)`, from index idx.
RECURSIVE RenderLoop(_, _, _, _)
RenderLoop(idx, n, res, acc) ==
    IF idx < n
      THEN RenderLoop(idx + 1, n, res,
                      Append(acc, RenderFrame("fallback", idx, res, n, acc)))
      ELSE acc

create_puppy_frames(width, height, d, f) ==
    RenderLoop(0, d * f, <<width, height>>, <<>>)

\* _create_simple_video renders range(duration * 3) frames.
NumSimpleFrames(d) == d * SimpleFps

(***************************************************************************)
(* The ffmpeg step of _create_fallback_video.                              *)
(***************************************************************************)
\* What the try block around subprocess.run can end with.
FfmpegOutcomes == {"ok", "nonzero", "notfound", "import_error"}

\* The exception the try block raises for an outcome.
ExceptionOf(out) ==
    CASE out = "nonzero" -> "Exception"
      [] out = "notfound" -> "FileNotFoundError"
      [] out = "import_error" -> "ImportError"
      [] OTHER -> "none"

\* The inner handler is `except ImportError`.
InnerHandlerCatches(exc) == exc = "ImportError"

\* The removal of the stills after returncode == 0.
CleanupTemp(tf, fp) == tf \ Range(fp)

(***************************************************************************)
(* Initial state: a VideoAgent not yet constructed.  The placeholders for  *)
(* fps and resolution are overwritten by the constructor.                  *)
(***************************************************************************)
VideoInit ==
    /\ v_pc = "new"
    /\ is_initialized = FALSE
    /\ image_generator = FALSE
    /\ video_generator = FALSE
    /\ fps = 1
    /\ resolution = <<1, 1>>
    /\ prompt = "other"
    /\ duration = 0
    /\ i = 0
    /\ frames = <<>>
    /\ frame_paths = <<>>
    /\ temp_files = {}
    /\ result = NoPath
    /\ raised = FALSE
    /\ trail = NoTrail
    /\ calls = 0

(***************************************************************************)
(* AudioAgent: configuration tables.                                       *)
(***************************************************************************)
music_styles ==
    [upbeat_cute |->
        [tempo |-> 120, key |-> "C",
         scale |-> <<"C", "D", "E", "F", "G", "A", "B">>,
         chords |-> <<"C", "F", "G", "Am">>, mood |-> "happy"],
     calm_peaceful |->
        [tempo |-> 80, key |-> "D",
         scale |-> <<"D", "E", "F#", "G", "A", "B", "C#">>,
         chords |-> <<"D", "G", "A", "Bm">>, mood |-> "peaceful"],
     energetic_fun |->
        [tempo |-> 140, key |-> "G",
         scale |-> <<"G", "A", "B", "C", "D", "E", "F#">>,
         chords |-> <<"G", "C", "D", "Em">>, mood |-> "energetic"],
     emotional_touching |->
        [tempo |-> 90, key |-> "A",
         scale |-> <<"A", "B", "C#", "D", "E", "F#", "G#">>,
         chords |-> <<"A", "D", "E", "F#m">>, mood |-> "emotional"]]

\* The style names a caller may pass: the four profiles and one that is
\* not defined.
StyleNames == DOMAIN music_styles \cup {"lofi_unknown"}

StyleConfig_first(st) ==
    IF st \in DOMAIN music_styles THEN music_styles[st]
                                  ELSE music_styles["calm_peaceful"]

\* self.music_styles.get(style, self.music_styles["upbeat_cute"])
StyleConfig(st) ==
    IF st \in DOMAIN music_styles THEN music_styles[st]
                                  ELSE music_styles["upbeat_cute"]

(***************************************************************************)
(* pydub segments, by their length in milliseconds.                        *)
(***************************************************************************)
Empty == 0                        \* AudioSegment.empty()
Tone(ms) == ms                    \* Sine(f).to_audio_segment(duration=ms)
Silent(ms) == ms                  \* AudioSegment.silent(duration=ms)
Concat(a, b) == a + b             \* a + b, a += b
\* a.overlay(b): b is mixed into a from position 0; the result is as long
\* as a, and what of b lies beyond the end of a is dropped.
Overlay(a, b) == a

\* random.uniform(0.5, 2.0) and random.uniform(1.0, 2.0), in ms
MelodyDraws == {500, 800, 1300, 2000}
HarmonyDraws == {1000, 1500, 2000}

NoteDuration_unclamped(draw, remaining) == draw

\* note_duration = min(note_duration, duration - current_time)
NoteDuration(draw, remaining) == Min(draw, remaining)

\* chord_audio = AudioSegment.empty(); for note in chord_notes:
\*     chord_audio = chord_audio.overlay(Sine(note).to_audio_segment(d))
ChordAudio(d) == Overlay(Overlay(Overlay(Empty, Tone(d)), Tone(d)), Tone(d))

KickMs == 100                     \* Sine(60).to_audio_segment(duration=100)
SnareMs == 50                     \* WhiteNoise().to_audio_segment(duration=50)
MsPerMinute == 60000              \* beat_interval = 60 / tempo, in ms

\* beat = kick + snare
Beat == Concat(Tone(KickMs), Tone(SnareMs))

\* `while current_time < duration` of _generate_rhythm after n passes, each
\* adding 60 / tempo seconds; both sides multiplied by tempo
RhythmContinues(n, tempo, d) == n * MsPerMinute < d * 1000 * tempo

Max3(a, b, c) == Max(a, Max(b, c))

\* _mix_music_layers: the length of the mixed segment
MixMaxLength(m, h, r) == Max3(m, h, h)
PadTo(seg, n) == IF seg < n THEN Concat(seg, Silent(n - seg)) ELSE seg
MixLayers(m, h, r) ==
    LET n == MixMaxLength(m, h, r)
    IN  Overlay(Overlay(PadTo(m, n), PadTo(h, n)), PadTo(r, n))

SimpleMusicNotes == 4             \* notes = [440, 523, 659, 784]
SimpleNoteMs == 500               \* Sine(note).to_audio_segment(duration=500)
AddAudioMusicDuration == 15       \* _create_advanced_music(style, duration=15)
SampleMusicDuration == 10         \* _create_advanced_music(style, duration=10)

\* Word lengths of the scripts handed to add_audio.
Scripts == {<<>>, <<4, 1, 5>>}

RECURSIVE EnhancedVoiceLen(_)
\* per word: max(0.2, len(word) * 0.1) seconds of tone, then 50 ms of pause
EnhancedVoiceLen(sc) ==
    IF sc = <<>> THEN Empty
    ELSE Concat(Concat(Tone(Max(200, Head(sc) * 100)), Silent(50)),
                EnhancedVoiceLen(Tail(sc)))

\* Sine(800).to_audio_segment(duration=len(script.split()) * 200)
PlaceholderVoiceLen(sc) == Tone(Len(sc) * 200)

\* _combine_audio_advanced pads both to the longer and overlays
CombineAdvancedLen(m, v) ==
    LET n == Max(m, v) IN Overlay(PadTo(m, n), PadTo(v, n))
\* _combine_audio overlays the voice on the music as it is
CombineSimpleLen(m, v) == Overlay(m, v)

\* Videos handed to add_audio, and what VideoFileClip finds their length
\* to be (ms).
VideoPaths == {[dir |-> "output/videos", name |-> "puppy_5s.mp4",
                prefix |-> ""],
               [dir |-> "output/videos", name |-> "simple_5s.gif",
                prefix |-> ""]}
VideoLens == {1000, 10000, 15000, 20000}
NoVideo == [dir |-> "", name |-> "", prefix |-> ""]

\* Path(video_path).parent / f"final_{Path(video_path).name}"
FinalPath(p) == [p EXCEPT !.prefix = "final_"]

NoFile == [kind |-> "none", len |-> 0]
NoMerge == [video_len |-> 0, audio_len |-> 0, made |-> FALSE]
NoHit == [beat |-> -1, start |-> -1]
NoAudioTrail == [advanced_failed |-> FALSE, voice_failed |-> FALSE,
                 combine_failed |-> FALSE, stage_raised |-> "none",
                 merge |-> "none", merge_returned |-> NoVideo,
                 audio_in |-> 0, video_in |-> 0, raised |-> FALSE,
                 melody_scale |-> <<>>, harmony_chords |-> <<>>,
                 rhythm_tempo |-> 0, effects_mood |-> "none"]

Subclip_whole(a, t0, t1) == a

\* audio.subclip(t0, t1): the part of the clip from t0 to t1
Subclip(a, t0, t1) == t1 - t0
\* audio.loop(duration=d): the clip repeated up to d
Loop(a, d) == d

\* _merge_audio_video: "Ensure audio matches video duration"
MatchAudio(a, v) ==
    IF a > v THEN Subclip(a, 0, v)
    ELSE IF a < v THEN Loop(a, v)
    ELSE a

AudioInit ==
    /\ a_pc = "idle"
    /\ entry = "none"
    /\ style = "upbeat_cute"
    /\ music_duration = 0
    /\ melody = Empty
    /\ melody_time = 0
    /\ harmony = Empty
    /\ harmony_time = 0
    /\ note_duration = 0
    /\ rhythm = Empty
    /\ beats = 0
    /\ last_hit = NoHit
    /\ music = NoFile
    /\ voice = NoFile
    /\ combined = NoFile
    /\ video_path = NoVideo
    /\ script = <<>>
    /\ merged = NoMerge
    /\ a_result = NoVideo
    /\ a_trail = NoAudioTrail

(***************************************************************************)
(* AudioAgent helpers: chord tones and the mixing of layers.  A note name  *)
(* or chord symbol is the sequence of its characters.                      *)
(***************************************************************************)
notes == << <<"C">>, <<"C", "#">>, <<"D">>, <<"D", "#">>, <<"E">>, <<"F">>,
            <<"F", "#">>, <<"G">>, <<"G", "#">>, <<"A">>, <<"A", "#">>,
            <<"B">> >>

\* self.note_frequencies, in hundredths of a hertz
note_frequencies(n) ==
    CASE n = <<"C">> -> 26163      [] n = <<"C", "#">> -> 27718
      [] n = <<"D">> -> 29366      [] n = <<"D", "#">> -> 31113
      [] n = <<"E">> -> 32963      [] n = <<"F">> -> 34923
      [] n = <<"F", "#">> -> 36999 [] n = <<"G">> -> 39200
      [] n = <<"G", "#">> -> 41530 [] n = <<"A">> -> 44000
      [] n = <<"A", "#">> -> 46616 [] n = <<"B">> -> 49388

\* self.note_frequencies.get(n, default)
FrequencyOf(n, default) ==
    IF n \in Range(notes) THEN note_frequencies(n) ELSE default

\* notes.index(note), from 0; ValueError for a name that is not in the list
NoteIndex(note) ==
    IF note \in Range(notes)
      THEN (CHOOSE k \in 1..Len(notes) : notes[k] = note) - 1
      ELSE -1

\* notes[idx]; IndexError beyond the end of the list
NoteAt(idx) ==
    IF idx >= 0 /\ idx < Len(notes) THEN notes[idx + 1] ELSE <<"IndexError">>

get_major_third(note) ==
    IF NoteIndex(note) < 0 THEN <<"ValueError">>
    ELSE NoteAt((NoteIndex(note) + 4) % 12)

get_minor_third(note) ==
    IF NoteIndex(note) < 0 THEN <<"ValueError">>
    ELSE NoteAt((NoteIndex(note) + 3) % 12)

get_perfect_fifth_nowrap(note) ==
    IF NoteIndex(note) < 0 THEN <<"ValueError">>
    ELSE NoteAt(NoteIndex(note) + 7)

get_perfect_fifth(note) ==
    IF NoteIndex(note) < 0 THEN <<"ValueError">>
    ELSE NoteAt((NoteIndex(note) + 7) % 12)

\* chord.endswith('m')
EndsWithM(chord) == Len(chord) > 0 /\ chord[Len(chord)] = "m"

\* _get_chord_notes: [root_freq, third_freq, fifth_freq]; an exception of
\* a helper leaves the function
get_chord_notes(chord) ==
    LET minor == EndsWithM(chord)
        root == IF minor THEN SubSeq(chord, 1, Len(chord) - 1) ELSE chord
        third == IF minor THEN get_minor_third(root)
                          ELSE get_major_third(root)
        fifth == get_perfect_fifth(root)
    IN  IF third \in {<<"ValueError">>, <<"IndexError">>} THEN third
        ELSE IF fifth \in {<<"ValueError">>, <<"IndexError">>} THEN fifth
        ELSE <<FrequencyOf(root, 44000), FrequencyOf(third, 55437),
               FrequencyOf(fifth, 65925)>>

\* The chord symbols a caller may pass: each note name, as a major and as
\* a minor chord.
ChordSymbols ==
    Range(notes) \cup {Append(notes[k], "m") : k \in 1..Len(notes)}

\* Of b, the milliseconds that a.overlay(b) contains.
OverlayHeard(a, b) == Min(a, b)

\* _mix_music_layers: of each layer as it was passed in, the milliseconds
\* the mixed segment contains
MixHeard(m, h, r) ==
    LET n == MixMaxLength(m, h, r)
        mixed == Overlay(PadTo(m, n), PadTo(h, n))
    IN  <<Min(m, PadTo(m, n)),
          Min(h, OverlayHeard(PadTo(m, n), PadTo(h, n))),
          Min(r, OverlayHeard(mixed, PadTo(r, n)))>>

LayerLengths == 0..MaxLayerMs

NoCall == [fn |-> "none", args |-> <<>>, ret |-> <<>>]

HelperInit == music_call = NoCall

\* A run of a frame loop that has not started.
NoRun == [kind |-> "none", duration |-> 0, i |-> 0, frames |-> <<>>]

RenderInit == runs = [r \in {"first", "second"} |-> NoRun]

NoHsvCall == [args |-> <<>>, ret |-> <<>>]

ColorInit == hsv_call = NoHsvCall

(***************************************************************************)
(* DatabaseManager: table `content`.  A content dict is a function from    *)
(* the keys it has to their values; None is the string "None"; a JSON text *)
(* is the sequence of its tokens.                                          *)
(***************************************************************************)
None == "None"

ContentIds == {"test_001", "test_002"}
NeverSavedId == "test_404"

ContentKeys == {"id", "title", "description", "category", "theme", "script",
                "video_path", "tags", "created_at"}

\* A dict with all nine keys, in two versions.
FullContent(id, version) ==
    [k \in ContentKeys |->
        CASE k = "id" -> id
          [] k = "title" ->
                IF version = 1 THEN "Test Video" ELSE "Second Title"
          [] k = "description" ->
                IF version = 1 THEN "A test video" ELSE "Edited"
          [] k = "category" -> IF version = 1 THEN "test" ELSE "pets"
          [] k = "theme" -> IF version = 1 THEN "test" ELSE "dogs"
          [] k = "script" -> IF version = 1 THEN "A script" ELSE "New script"
          [] k = "video_path" ->
                IF version = 1 THEN "/tmp/test.mp4" ELSE "/tmp/second.mp4"
          [] k = "tags" -> IF version = 1 THEN <<"test", "demo">> ELSE <<>>
          [] k = "created_at" ->
                IF version = 1 THEN "2024-01-01T00:00:00"
                               ELSE "2024-02-02T00:00:00"]

\* The same dict restricted to some of its keys.
Restrict(c, keys) == [k \in keys |-> c[k]]

\* What save_content is called with: full dicts, a dict with the three
\* subscripted keys only, a dict without 'description', a title of None.
Contents ==
    UNION {{FullContent(id, 1),
            FullContent(id, 2),
            Restrict(FullContent(id, 1), {"id", "title", "description"}),
            Restrict(FullContent(id, 1), {"id", "title"}),
            [FullContent(id, 2) EXCEPT !["title"] = None]}
           : id \in ContentIds}

\* content.get(key)
DictGet(c, key) == IF key \in DOMAIN c THEN c[key] ELSE None

RECURSIVE JsonItems(_)
\* the elements of a JSON array of strings, comma-separated
JsonItems(list) ==
    IF list = <<>> THEN <<>>
    ELSE <<"\"", Head(list), "\"">> \o
         (IF Tail(list) = <<>> THEN <<>> ELSE <<",">> \o JsonItems(Tail(list)))

\* json.dumps(list of strings)
JsonDumps(list) == <<"[">> \o JsonItems(list) \o <<"]">>

RECURSIVE JsonParseItems(_)
JsonParseItems(toks) ==
    IF Len(toks) < 3 THEN <<>>
    ELSE <<toks[2]>> \o JsonParseItems(SubSeq(toks, 5, Len(toks)))

\* json.loads(text) for the text of an array of strings
JsonLoads(toks) == JsonParseItems(SubSeq(toks, 2, Len(toks) - 1))

\* The tuple of values bound to the INSERT statement.
RowOf(c, now) ==
    [id |-> c["id"], title |-> c["title"], description |-> c["description"],
     category |-> DictGet(c, "category"), theme |-> DictGet(c, "theme"),
     script |-> DictGet(c, "script"),
     video_path |-> DictGet(c, "video_path"),
     tags |-> JsonDumps(IF "tags" \in DOMAIN c THEN c["tags"] ELSE <<>>),
     created_at |-> DictGet(c, "created_at"),
     updated_at |-> now]

InsertOrReplace_ignore(rows, row) ==
    IF \E old \in rows : old.id = row.id THEN rows ELSE rows \cup {row}

\* INSERT OR REPLACE INTO content: id is the primary key
InsertOrReplace(rows, row) ==
    {old \in rows : old.id # row.id} \cup {row}

\* What the try block of save_content ends with.
SaveError(c, io) ==
    IF ~connection THEN "AttributeError"
    ELSE IF ~({"id", "title", "description"} \subseteq DOMAIN c)
      THEN "KeyError"
    ELSE IF c["title"] = None THEN "IntegrityError"   \* title TEXT NOT NULL
    ELSE IF io = "error" THEN "OperationalError"
    ELSE "none"

\* get_content: dict(row) with tags parsed when the column is not empty
DictOfRow(row) ==
    IF row.tags # <<>> THEN [row EXCEPT !.tags = JsonLoads(row.tags)]
                       ELSE row

\* SELECT * FROM content WHERE id = ?; fetchone(); the Optional result is
\* a sequence: <<>> for None, <<dict>> for a dict
FetchOne(rows, id) ==
    IF \E row \in rows : row.id = id
      THEN <<DictOfRow(CHOOSE row \in rows : row.id = id)>>
      ELSE <<>>

NoSave == [content |-> <<>>, count |-> 0]

NoDbCall == [fn |-> "none", arg |-> None, ok |-> TRUE, ret |-> <<>>,
             connected |-> FALSE]

DbInit ==
    /\ connection = FALSE
    /\ content_rows = {}
    /\ db_clock = 0
    /\ last_saved = [id \in ContentIds \cup {NeverSavedId} |-> NoSave]
    /\ db_call = NoDbCall

NoSchedCall == [fn |-> "none", arg |-> None, before |-> <<>>,
                logged |-> "none", ret |-> None]

\* ContentScheduler.__init__
SchedInit ==
    /\ content_queue = <<>>
    /\ last_generation = None
    /\ last_upload = None
    /\ sched_call = NoSchedCall
    /\ sched_now = 0

NoUploadTimeCall == [now |-> <<>>, ret |-> <<>>]

UploadTimeInit == upload_time_call = NoUploadTimeCall

\* no generate_ideas call is running
IdeasInit ==
    /\ g_pc = "idle"
    /\ g_count = 0
    /\ g_theme = "cute_animals"
    /\ g_i = 0
    /\ g_ideas = <<>>
    /\ g_ret = [path |-> "none", ideas |-> <<>>]

\* ShortVideoGenerator.__init__
MainInit ==
    /\ m_pc = "new"
    /\ m_cycles = 0
    /\ m_ideas = <<>>
    /\ queued_content = <<>>
    /\ m_k = 0
    /\ upload_log = <<>>
    /\ m_generated_on = -1

Epoch == 100000       \* time.time() when the limiter is constructed

Callers == {1, 2}

CallerIdle == [pc |-> "idle", platform |-> "none", now |-> 0, wake |-> 0,
               result |-> FALSE]

\* RateLimiter.__init__
LimiterInit ==
    /\ clock = Epoch
    /\ request_counts = <<>>
    /\ last_request_times = 0
    /\ co = [c \in Callers |-> CallerIdle]
    /\ grants = <<>>
    /\ l_calls = 0
    /\ idle_gap = FALSE

Init ==
    /\ VideoInit /\ AudioInit /\ HelperInit /\ RenderInit /\ ColorInit
    /\ DbInit /\ SchedInit
    /\ UploadTimeInit
    /\ IdeasInit
    /\ MainInit
    /\ LimiterInit

Idle == v_pc \in {"ready", "done"}

\* VideoAgent.__init__
Construct ==
    /\ v_pc = "new"
    /\ v_pc' = "ready"
    /\ \E f \in FpsValues : fps' = f
    /\ \E r \in Resolutions : resolution' = r
    /\ UNCHANGED <<is_initialized, image_generator, video_generator, prompt,
                   duration, i, frames, frame_paths, temp_files,
                   result, raised, trail, calls>>
    /\ UNCHANGED nonVideoVars

\* VideoAgent.initialize, called by the owner of the agent
Initialize ==
    /\ Idle
    /\ \E gpu \in GpuOutcomes, cpu \in CpuOutcomes : DoInitialize(gpu, cpu)
    /\ UNCHANGED <<v_pc, fps, resolution, prompt, duration, i, frames,
                   frame_paths, temp_files, result, raised, trail,
                   calls>>
    /\ UNCHANGED nonVideoVars

\* VideoAgent.cleanup
Cleanup ==
    /\ Idle
    /\ image_generator' = FALSE
    /\ video_generator' = FALSE
    /\ is_initialized' = FALSE
    /\ UNCHANGED <<v_pc, fps, resolution, prompt, duration, i, frames,
                   frame_paths, temp_files, result, raised, trail,
                   calls>>
    /\ UNCHANGED nonVideoVars

\* generate_video(prompt, duration): entry
GenerateVideo ==
    /\ Idle
    /\ calls < MaxCalls
    /\ \E p \in Themes, d \in 0..MaxDuration :
          /\ prompt' = p
          /\ duration' = d
    /\ calls' = calls + 1
    /\ v_pc' = "gv_init"
    /\ i' = 0
    /\ frames' = <<>>
    /\ frame_paths' = <<>>
    /\ result' = NoPath
    /\ raised' = FALSE
    /\ trail' = NoTrail
    /\ UNCHANGED <<is_initialized, image_generator, video_generator, fps,
                   resolution, temp_files>>
    /\ UNCHANGED nonVideoVars

\* generate_video: `if not self.is_initialized: await self.initialize()`
GvEnsureInitialized ==
    /\ v_pc = "gv_init"
    /\ v_pc' = "gv_ai"
    /\ IF ~is_initialized
         THEN \E gpu \in GpuOutcomes, cpu \in CpuOutcomes :
                 DoInitialize(gpu, cpu)
         ELSE UNCHANGED <<is_initialized, image_generator, video_generator>>
    /\ UNCHANGED <<fps, resolution, prompt, duration, i, frames, frame_paths,
                   temp_files, result, raised, trail, calls>>
    /\ UNCHANGED nonVideoVars

UseAI_either(img, vid) == img \/ vid

\* The condition under which generate_video tries the model-backed path.
UseAI(img, vid) == img /\ vid

\* generate_video: the model-backed attempt and its `except Exception`
GvTryAI ==
    /\ v_pc = "gv_ai"
    /\ IF UseAI(image_generator, video_generator)
         THEN \E out \in {"ok", "raise"} :
                 IF out = "ok"
                   THEN /\ v_pc' = "done"
                        /\ result' = Mp4Path(prompt, duration)
                        /\ trail' = [trail EXCEPT
                                        !.ai_attempted = TRUE,
                                        !.written = {Mp4Path(prompt, duration)}]
                   ELSE /\ v_pc' = "fb_render"
                        /\ trail' = [trail EXCEPT !.ai_attempted = TRUE,
                                                  !.ai_raised = TRUE,
                                                  !.fallback_ran = TRUE]
                        /\ UNCHANGED result
         ELSE /\ v_pc' = "fb_render"
              /\ trail' = [trail EXCEPT !.fallback_ran = TRUE]
              /\ UNCHANGED result
    /\ UNCHANGED <<is_initialized, image_generator, video_generator, fps,
                   resolution, prompt, duration, i, frames, frame_paths,
                   temp_files, raised, calls>>
    /\ UNCHANGED nonVideoVars

\* _create_fallback_video: `for i in range(duration * self.fps)`, each pass
\* rendering the frame of index i and appending it; the loop reads nothing
\* but its index and the resolution
FbRenderFrames ==
    /\ v_pc = "fb_render"
    /\ frames' = RenderLoop(0, NumFrames(duration, fps), resolution, <<>>)
    /\ i' = Max(0, NumFrames(duration, fps))
    /\ v_pc' = "fb_save"
    /\ UNCHANGED <<is_initialized, image_generator, video_generator,
                   fps, resolution, prompt, duration, frame_paths, temp_files,
                   result, raised, trail, calls>>
    /\ UNCHANGED nonVideoVars

\* _create_fallback_video: the stills are written to temp_frames
FbSaveFrames ==
    /\ v_pc = "fb_save"
    /\ frame_paths' = [k \in 1..Len(frames) |-> k - 1]
    /\ temp_files' = temp_files \cup {k - 1 : k \in 1..Len(frames)}
    /\ v_pc' = "fb_ffmpeg"
    /\ UNCHANGED <<is_initialized, image_generator, video_generator, fps,
                   resolution, prompt, duration, i, frames, result,
                   raised, trail, calls>>
    /\ UNCHANGED nonVideoVars

AfterFfmpegFailure_retry == "fb_ffmpeg"

\* Where control goes when the exception of a failed ffmpeg run is not
\* caught by the inner handler: the outer handler of _create_fallback_video
\* re-raises it to generate_video.
AfterFfmpegFailure == "gv_except"

\* _create_fallback_video: the try block around ffmpeg, the cleanup after
\* returncode == 0, `except ImportError`, and the outer `except Exception`
\* that logs and re-raises
FbRunFfmpeg ==
    /\ v_pc = "fb_ffmpeg"
    /\ \E out \in FfmpegOutcomes :
          \* ffmpeg can only exit with status 0 when it has an input still
          /\ out = "ok" => temp_files # {}
          /\ IF out = "ok"
               THEN /\ temp_files' = CleanupTemp(temp_files, frame_paths)
                    /\ v_pc' = "gv_return"
                    /\ trail' = [trail EXCEPT
                          !.ffmpeg = out,
                          !.ffmpeg_calls = @ + 1,
                          !.fallback_returned = Mp4Path(prompt, duration),
                          !.written = @ \cup {Mp4Path(prompt, duration)}]
               ELSE IF InnerHandlerCatches(ExceptionOf(out))
               THEN /\ v_pc' = "fb_gif"
                    /\ trail' = [trail EXCEPT !.ffmpeg = out]
                    /\ UNCHANGED temp_files
               ELSE /\ v_pc' = AfterFfmpegFailure
                    /\ trail' = [trail EXCEPT !.ffmpeg = out,
                                              !.ffmpeg_calls = @ + 1,
                                              !.fallback_raised = TRUE]
                    /\ UNCHANGED temp_files
    /\ UNCHANGED <<is_initialized, image_generator, video_generator, fps,
                   resolution, prompt, duration, i, frames, frame_paths,
                   result, raised, calls>>
    /\ UNCHANGED nonVideoVars

\* _create_gif_video, reached from the `except ImportError` handler:
\* frames[0].save(...) raises IndexError on an empty list, and the
\* handlers of _create_gif_video and _create_fallback_video re-raise
FbGif ==
    /\ v_pc = "fb_gif"
    /\ IF frames = <<>>
         THEN /\ v_pc' = "gv_except"
              /\ trail' = [trail EXCEPT !.fallback_raised = TRUE]
         ELSE /\ v_pc' = "gv_return"
              /\ trail' = [trail EXCEPT
                    !.gif_encodes = @ + 1,
                    !.fallback_returned = GifPath(prompt, duration),
                    !.written = @ \cup {GifPath(prompt, duration)}]
    /\ UNCHANGED <<is_initialized, image_generator, video_generator, fps,
                   resolution, prompt, duration, i, frames, frame_paths,
                   temp_files, result, raised, calls>>
    /\ UNCHANGED nonVideoVars

\* generate_video: `return video_path` after _create_fallback_video
GvReturn ==
    /\ v_pc = "gv_return"
    /\ result' = trail.fallback_returned
    /\ v_pc' = "done"
    /\ UNCHANGED <<is_initialized, image_generator, video_generator, fps,
                   resolution, prompt, duration, i, frames, frame_paths,
                   temp_files, raised, trail, calls>>
    /\ UNCHANGED nonVideoVars

OuterHandler_reraise == "raise"

\* What the outer handler of generate_video does with an exception of the
\* procedural stage: "simple" = return await self._create_simple_video(...)
OuterHandler == "simple"

\* generate_video: the outer `except Exception`, and _create_simple_video:
\* range(duration * 3) frames, frames[0].save(...), the handler re-raises
GvExcept ==
    /\ v_pc = "gv_except"
    /\ v_pc' = "done"
    /\ IF OuterHandler # "simple"
         THEN /\ raised' = TRUE
              /\ UNCHANGED <<result, trail>>
         ELSE IF NumSimpleFrames(duration) = 0
         THEN /\ raised' = TRUE
              /\ trail' = [trail EXCEPT !.simple_ran = TRUE]
              /\ UNCHANGED result
         ELSE \E io \in {"ok", "fail"} :
                 IF io = "ok"
                   THEN /\ result' = SimplePath(duration)
                        /\ trail' = [trail EXCEPT
                              !.simple_ran = TRUE,
                              !.gif_encodes = @ + 1,
                              !.written = @ \cup {SimplePath(duration)}]
                        /\ UNCHANGED raised
                   ELSE /\ raised' = TRUE
                        /\ trail' = [trail EXCEPT !.simple_ran = TRUE,
                                                  !.simple_io_failed = TRUE]
                        /\ UNCHANGED result
    /\ UNCHANGED <<is_initialized, image_generator, video_generator, fps,
                   resolution, prompt, duration, i, frames, frame_paths,
                   temp_files, calls>>
    /\ UNCHANGED nonVideoVars

Next ==
    \/ Construct
    \/ Initialize
    \/ Cleanup
    \/ GenerateVideo
    \/ GvEnsureInitialized
    \/ GvTryAI
    \/ FbRenderFrames
    \/ FbSaveFrames
    \/ FbRunFfmpeg
    \/ FbGif
    \/ GvReturn
    \/ GvExcept

Spec == Init /\ [][Next]_vars

(***************************************************************************)
(* Properties of the video pipeline.                                       *)
(***************************************************************************)
\* _create_fallback_video has returned or raised, and generate_video has
\* not yet acted on it.
FallbackExited == v_pc \in {"gv_return", "gv_except"}

\* The frame list of the running call is complete.
FramesAssembled ==
    v_pc \in {"fb_save", "fb_ffmpeg", "fb_gif", "gv_return", "gv_except"}

\* C1: for duration >= 1, generate_video ends without raising and returns
\* the path of a media file one of its stages wrote, whichever of the
\* earlier stages failed: a raising model-backed stage is followed by the
\* procedural stage, a raising procedural stage by _create_simple_video,
\* whose GIF path is then the result.  (The last-resort stage's own write
\* is taken to succeed: it has no stage after it.)
C1_GenerateVideoReturnsMedia ==
    (v_pc = "done" /\ duration >= 1 /\ ~trail.simple_io_failed) =>
        /\ ~raised
        /\ result # NoPath
        /\ result \in trail.written
        /\ trail.ai_raised => trail.fallback_ran
        /\ trail.fallback_raised =>
              /\ trail.simple_ran
              /\ result = SimplePath(duration)

C1_Witness ==
    /\ v_pc = "done"
    /\ duration >= 1
    /\ trail.ai_raised
    /\ trail.fallback_raised
    /\ trail.ffmpeg = "notfound"
    /\ ~raised
    /\ result = SimplePath(duration)

\* C2: when the ffmpeg invocation fails (executable not found, or non-zero
\* exit status), _create_fallback_video does not raise: it returns the path
\* of the GIF that _create_gif_video encoded from the rendered frames
\* (stated for a call that rendered at least one frame).
C2_FfmpegFailureFallsBackToGif ==
    (/\ FallbackExited
     /\ frames # <<>>
     /\ trail.ffmpeg \in {"nonzero", "notfound"}) =>
        /\ ~trail.fallback_raised
        /\ trail.fallback_returned = GifPath(prompt, duration)

\* C3: when _create_fallback_video exits, on any path, none of the stills
\* it wrote into temp_frames is left on disk.
C3_TempStillsDeletedOnExit ==
    FallbackExited => Range(frame_paths) \cap temp_files = {}

\* C5: for duration >= 1 the assembled frame list holds exactly
\* duration * fps frames, the k-th of them (from 0) rendered for index k,
\* all of the configured resolution; create_puppy_frames builds the same
\* number of frames in the same order.
C5_FrameCountAndOrder ==
    (FramesAssembled /\ duration >= 1) =>
        /\ Len(frames) = duration * fps
        /\ \A k \in 1..Len(frames) :
              /\ frames[k].index = k - 1
              /\ frames[k].size = resolution
        /\ LET pf == create_puppy_frames(resolution[1], resolution[2],
                                         duration, fps)
           IN  /\ Len(pf) = duration * fps
               /\ \A k \in 1..Len(pf) :
                     /\ pf[k].index = k - 1
                     /\ pf[k].size = resolution

C5_Witness ==
    /\ v_pc = "fb_ffmpeg"
    /\ duration = 2
    /\ fps = PuppyFps
    /\ Len(frames) = 20
    /\ frames[1].index = 0
    /\ frames[20].index = 19

\* C6: with duration 0 the assembler produces exactly one frame, so the
\* stages after it never receive an empty sequence and the call does not
\* end by raising.
C6_ZeroDurationGivesOneFrame ==
    /\ (FramesAssembled /\ duration = 0) => Len(frames) = 1
    /\ (v_pc = "done" /\ duration = 0 /\ ~trail.simple_io_failed) => ~raised

\* generate_video is past its `if self.image_generator and
\* self.video_generator` and has not returned.
PastSourceChoice ==
    v_pc \in {"fb_render", "fb_save", "fb_ffmpeg", "fb_gif", "gv_return",
              "gv_except"}

\* C12: the model-backed path is attempted if and only if both generators
\* are present; the procedural path runs exactly when a generator is absent
\* or the model-backed path raised, and never after the model-backed path
\* has returned a path.
C12_SourceChosenByAvailability ==
    /\ [][v_pc = "gv_ai" =>
            /\ trail'.ai_attempted <=> (image_generator /\ video_generator)
            /\ trail'.fallback_ran <=>
                  (~(image_generator /\ video_generator) \/ trail'.ai_raised)
            /\ (trail'.ai_attempted /\ ~trail'.ai_raised) =>
                  (v_pc' = "done" /\ result' # NoPath)]_vars
    /\ [](PastSourceChoice =>
            /\ trail.ai_attempted <=> (image_generator /\ video_generator)
            /\ trail.fallback_ran)
    /\ []((PastSourceChoice \/ v_pc = "done") =>
            /\ trail.fallback_ran <=>
                  (~trail.ai_attempted \/ trail.ai_raised)
            /\ (trail.ai_attempted /\ ~trail.ai_raised) =>
                  (~trail.fallback_ran /\ ~trail.simple_ran))

\* the image model loaded and the video model did not: the procedural path
\* runs without a model-backed attempt
C12_Witness ==
    /\ v_pc = "fb_render"
    /\ image_generator
    /\ ~video_generator
    /\ ~trail.ai_attempted
    /\ trail.fallback_ran

\* generate_video's stages in the order control passes through them.
Rank(pc) ==
    CASE pc = "new" -> 0        [] pc = "ready" -> 1
      [] pc = "gv_init" -> 2    [] pc = "gv_ai" -> 3
      [] pc = "fb_render" -> 4  [] pc = "fb_save" -> 5
      [] pc = "fb_ffmpeg" -> 6  [] pc = "fb_gif" -> 7
      [] pc = "gv_return" -> 8  [] pc = "gv_except" -> 9
      [] pc = "done" -> 10

\* The steps of a running generate_video call.
GvStep ==
    \/ GvEnsureInitialized
    \/ GvTryAI
    \/ FbRenderFrames
    \/ FbSaveFrames
    \/ FbRunFfmpeg
    \/ FbGif
    \/ GvReturn
    \/ GvExcept

\* A started call keeps running: every stage it awaits returns or raises.
SpecFair == Spec /\ WF_vars(GvStep)

\* C13: one generate_video call runs ffmpeg at most once and encodes a GIF
\* at most once per stage (procedural stage, last-resort stage); control
\* never goes back to a stage it has left, and every call ends, with a path
\* or with an error.
C13_BoundedEncodeAttempts ==
    /\ [](/\ trail.ffmpeg_calls <= 1
          /\ trail.gif_encodes <= 2
          /\ trail.ffmpeg_calls + trail.gif_encodes <= 3)
    /\ [][(v_pc' # v_pc /\ v_pc' # "gv_init") =>
             Rank(v_pc') > Rank(v_pc)]_vars
    /\ [](v_pc = "done" => (raised <=> result = NoPath))
    /\ (v_pc = "gv_init" ~> v_pc = "done")

\* a call whose ffmpeg run failed has ended, on the last-resort GIF
C13_Witness ==
    /\ v_pc = "done"
    /\ trail.ffmpeg = "nonzero"
    /\ trail.ffmpeg_calls = 1
    /\ trail.gif_encodes = 1
    /\ result = SimplePath(duration)

(***************************************************************************)
(* AudioAgent: add_audio and _create_advanced_music.                       *)
(***************************************************************************)
\* Durations _create_advanced_music is called with: by _create_sample_music
\* (10), and any small one.
MusicDurations == (0..MaxMusicDuration) \cup {SampleMusicDuration}

\* No request is running: none was made yet, or the last one has returned.
AudioIdle == a_pc \in {"idle", "done"}

StartRequest(e, st, d, vp, sc) ==
    /\ AudioIdle
    /\ a_pc' = "melody"
    /\ entry' = e
    /\ style' = st
    /\ music_duration' = d
    /\ video_path' = vp
    /\ script' = sc
    /\ melody' = Empty
    /\ melody_time' = 0
    /\ harmony' = Empty
    /\ harmony_time' = 0
    /\ note_duration' = 0
    /\ rhythm' = Empty
    /\ beats' = 0
    /\ last_hit' = NoHit
    /\ music' = NoFile
    /\ voice' = NoFile
    /\ combined' = NoFile
    /\ merged' = NoMerge
    /\ a_result' = NoVideo
    /\ a_trail' = NoAudioTrail

\* add_audio(video_path, script, music_style): entry, up to the call of
\* _create_advanced_music(music_style, duration=15)
AddAudio ==
    /\ \E st \in StyleNames, vp \in VideoPaths, sc \in Scripts :
          StartRequest("add_audio", st, AddAudioMusicDuration, vp, sc)
    /\ UNCHANGED nonAudioVars

\* _create_advanced_music(style, duration), called on its own
CreateAdvancedMusic ==
    /\ \E st \in StyleNames, d \in MusicDurations :
          StartRequest("music", st, d, NoVideo, <<>>)
    /\ UNCHANGED nonAudioVars

\* _generate_melody: one pass of `while current_time < duration`
MelodyStep ==
    /\ a_pc = "melody"
    /\ melody_time < music_duration * 1000
    /\ \E draw \in MelodyDraws :
          LET nd == NoteDuration(draw, music_duration * 1000 - melody_time)
          IN  /\ note_duration' = nd
              /\ melody' = Concat(melody, Tone(nd))
              /\ melody_time' = melody_time + nd
    \* note = random.choice(scale)
    /\ a_trail' = [a_trail EXCEPT !.melody_scale = StyleConfig(style).scale]
    /\ UNCHANGED <<a_pc, entry, style, music_duration, harmony, harmony_time,
                   rhythm, beats, last_hit, music, voice, combined,
                   video_path, script, merged, a_result>>
    /\ UNCHANGED nonAudioVars

\* _generate_melody: the loop condition fails, `return melody`
MelodyExit ==
    /\ a_pc = "melody"
    /\ ~(melody_time < music_duration * 1000)
    /\ a_pc' = "harmony"
    /\ note_duration' = 0
    /\ UNCHANGED <<entry, style, music_duration, melody, melody_time, harmony,
                   harmony_time, rhythm, beats, last_hit, music, voice,
                   combined, video_path, script, merged, a_result, a_trail>>
    /\ UNCHANGED nonAudioVars

\* _generate_harmony: one pass of `while current_time < duration`
HarmonyStep ==
    /\ a_pc = "harmony"
    /\ harmony_time < music_duration * 1000
    /\ \E k \in 1..Len(StyleConfig(style).chords), draw \in HarmonyDraws :
          LET cd == NoteDuration(draw, music_duration * 1000 - harmony_time)
          IN  /\ note_duration' = cd
              /\ harmony' = Concat(harmony, ChordAudio(cd))
              /\ harmony_time' = harmony_time + cd
    \* chord = random.choice(chords)
    /\ a_trail' = [a_trail EXCEPT
                      !.harmony_chords = StyleConfig(style).chords]
    /\ UNCHANGED <<a_pc, entry, style, music_duration, melody, melody_time,
                   rhythm, beats, last_hit, music, voice, combined,
                   video_path, script, merged, a_result>>
    /\ UNCHANGED nonAudioVars

\* _generate_harmony: the loop condition fails, `return harmony`
HarmonyExit ==
    /\ a_pc = "harmony"
    /\ ~(harmony_time < music_duration * 1000)
    /\ a_pc' = "rhythm"
    /\ note_duration' = 0
    /\ UNCHANGED <<entry, style, music_duration, melody, melody_time, harmony,
                   harmony_time, rhythm, beats, last_hit, music, voice,
                   combined, video_path, script, merged, a_result, a_trail>>
    /\ UNCHANGED nonAudioVars

\* _generate_rhythm: one pass of `while current_time < duration`; with
\* probability 0.4 a hit is appended, and nothing is appended otherwise
RhythmStep ==
    /\ a_pc = "rhythm"
    /\ RhythmContinues(beats, StyleConfig(style).tempo, music_duration)
    /\ \E hit \in BOOLEAN :
          IF hit
            THEN /\ rhythm' = Concat(rhythm, Beat)
                 /\ last_hit' = [beat |-> beats, start |-> rhythm]
            ELSE UNCHANGED <<rhythm, last_hit>>
    /\ beats' = beats + 1
    \* beat_interval = 60 / tempo
    /\ a_trail' = [a_trail EXCEPT !.rhythm_tempo = StyleConfig(style).tempo]
    /\ UNCHANGED <<a_pc, entry, style, music_duration, melody, melody_time,
                   harmony, harmony_time, note_duration, music, voice,
                   combined, video_path, script, merged, a_result>>
    /\ UNCHANGED nonAudioVars

\* _generate_rhythm: the loop condition fails, `return rhythm`
RhythmExit ==
    /\ a_pc = "rhythm"
    /\ ~RhythmContinues(beats, StyleConfig(style).tempo, music_duration)
    /\ a_pc' = "export"
    /\ beats' = 0
    /\ last_hit' = NoHit
    /\ UNCHANGED <<entry, style, music_duration, melody, melody_time, harmony,
                   harmony_time, note_duration, rhythm, music, voice,
                   combined, video_path, script, merged, a_result, a_trail>>
    /\ UNCHANGED nonAudioVars

AddAudioHandler_reraise == "raise"

\* add_audio: `except Exception: ... return video_path`
AddAudioHandler == "return_video_path"

\* An exception leaves the stage `st` of the running request: add_audio
\* handles it; a bare music request lets it out to its caller.
StageRaises(st) ==
    /\ a_pc' = "done"
    /\ IF entry = "add_audio" /\ AddAudioHandler = "return_video_path"
         THEN /\ a_result' = video_path
              /\ a_trail' = [a_trail EXCEPT !.stage_raised = st]
         ELSE /\ a_result' = NoVideo
              /\ a_trail' = [a_trail EXCEPT !.stage_raised = st,
                                            !.raised = TRUE]

\* _create_advanced_music: _mix_music_layers, _apply_music_effects (which
\* keeps the length and swallows its own errors) and the export; any
\* exception leads to _create_simple_music
ExportMusic ==
    /\ a_pc = "export"
    /\ \E out \in {"ok", "fail"} :
          IF out = "ok"
            THEN /\ music' = [kind |-> "advanced",
                              len |-> MixLayers(melody, harmony, rhythm)]
                 /\ a_pc' = IF entry = "add_audio" THEN "voice" ELSE "done"
                 \* _apply_music_effects branches on style_config["mood"]
                 /\ a_trail' = [a_trail EXCEPT
                                   !.effects_mood = StyleConfig(style).mood]
            ELSE /\ a_pc' = "simple_music"
                 /\ a_trail' = [a_trail EXCEPT !.advanced_failed = TRUE]
                 /\ UNCHANGED music
    \* the layers are locals of _create_advanced_music
    /\ melody' = Empty
    /\ melody_time' = 0
    /\ harmony' = Empty
    /\ harmony_time' = 0
    /\ rhythm' = Empty
    /\ UNCHANGED <<entry, style, music_duration, note_duration, beats,
                   last_hit, voice, combined, video_path, script, merged,
                   a_result>>
    /\ UNCHANGED nonAudioVars

\* _create_simple_music: four 500 ms tones; it has no handler of its own
SimpleMusic ==
    /\ a_pc = "simple_music"
    /\ \E out \in {"ok", "fail"} :
          IF out = "ok"
            THEN /\ music' = [kind |-> "simple",
                              len |-> SimpleMusicNotes * Tone(SimpleNoteMs)]
                 /\ a_pc' = IF entry = "add_audio" THEN "voice" ELSE "done"
                 /\ UNCHANGED <<a_result, a_trail>>
            ELSE /\ StageRaises("music")
                 /\ UNCHANGED music
    /\ UNCHANGED <<entry, style, music_duration, melody, melody_time, harmony,
                   harmony_time, note_duration, rhythm, beats, last_hit,
                   voice, combined, video_path, script, merged>>
    /\ UNCHANGED nonAudioVars

\* _create_enhanced_voice, on an exception _create_voice_placeholder, which
\* has no handler of its own
CreateVoice ==
    /\ a_pc = "voice"
    /\ \E out \in {"ok", "placeholder", "fail"} :
          CASE out = "ok" ->
                 /\ voice' = [kind |-> "enhanced",
                              len |-> EnhancedVoiceLen(script)]
                 /\ a_pc' = "combine"
                 /\ UNCHANGED <<a_result, a_trail>>
            [] out = "placeholder" ->
                 /\ voice' = [kind |-> "placeholder",
                              len |-> PlaceholderVoiceLen(script)]
                 /\ a_pc' = "combine"
                 /\ a_trail' = [a_trail EXCEPT !.voice_failed = TRUE]
                 /\ UNCHANGED a_result
            [] OTHER ->
                 /\ StageRaises("voice")
                 /\ UNCHANGED voice
    /\ UNCHANGED <<entry, style, music_duration, melody, melody_time, harmony,
                   harmony_time, note_duration, rhythm, beats, last_hit,
                   music, combined, video_path, script, merged>>
    /\ UNCHANGED nonAudioVars

\* _add_sound_effects (which returns "" on an exception) and
\* _combine_audio_advanced, on an exception _combine_audio, which has no
\* handler of its own; the effects never change the length
CombineAudio ==
    /\ a_pc = "combine"
    /\ \E out \in {"ok", "simple", "fail"} :
          CASE out = "ok" ->
                 /\ combined' = [kind |-> "advanced",
                       len |-> CombineAdvancedLen(music.len, voice.len)]
                 /\ a_pc' = "merge"
                 /\ UNCHANGED <<a_result, a_trail>>
            [] out = "simple" ->
                 /\ combined' = [kind |-> "simple",
                       len |-> CombineSimpleLen(music.len, voice.len)]
                 /\ a_pc' = "merge"
                 /\ a_trail' = [a_trail EXCEPT !.combine_failed = TRUE]
                 /\ UNCHANGED a_result
            [] OTHER ->
                 /\ StageRaises("combine")
                 /\ UNCHANGED combined
    /\ UNCHANGED <<entry, style, music_duration, melody, melody_time, harmony,
                   harmony_time, note_duration, rhythm, beats, last_hit,
                   music, voice, video_path, script, merged>>
    /\ UNCHANGED nonAudioVars

\* What the try block of _merge_audio_video can end with: the merged file
\* written; ImportError (no moviepy); any other exception (an unreadable
\* file, a clip that does not support len(), a failing write_videofile).
MergeOutcomes == {"ok", "import_error", "error"}

\* What _merge_audio_video returns for an outcome of its try block.
MergeReturn(out, vp) == IF out = "ok" THEN FinalPath(vp) ELSE vp

\* _merge_audio_video, and add_audio returning what it returned.  len() of a
\* clip is its duration, in the unit subclip and loop take.
MergeAudioVideo ==
    /\ a_pc = "merge"
    /\ \E out \in MergeOutcomes, vlen \in VideoLens :
          /\ merged' = IF out = "ok"
                         THEN [video_len |-> vlen,
                               audio_len |-> MatchAudio(combined.len, vlen),
                               made |-> TRUE]
                         ELSE NoMerge
          /\ a_trail' = [a_trail EXCEPT
                            !.merge = out,
                            !.merge_returned = MergeReturn(out, video_path),
                            !.audio_in = combined.len,
                            !.video_in = vlen]
          /\ a_result' = MergeReturn(out, video_path)
    /\ a_pc' = "done"
    /\ UNCHANGED <<entry, style, music_duration, melody, melody_time, harmony,
                   harmony_time, note_duration, rhythm, beats, last_hit,
                   music, voice, combined, video_path, script>>
    /\ UNCHANGED nonAudioVars

AudioNext ==
    \/ AddAudio
    \/ CreateAdvancedMusic
    \/ MelodyStep
    \/ MelodyExit
    \/ HarmonyStep
    \/ HarmonyExit
    \/ RhythmStep
    \/ RhythmExit
    \/ ExportMusic
    \/ SimpleMusic
    \/ CreateVoice
    \/ CombineAudio
    \/ MergeAudioVideo

SpecAudio == Init /\ [][AudioNext]_vars

(***************************************************************************)
(* Properties of the audio pipeline.                                       *)
(***************************************************************************)
\* C4: add_audio never raises.  When one of its stages (music, voice,
\* combination) lets an exception out, or the merge fails, it returns the
\* video_path it was given; when every stage delivers and the merge
\* succeeds it returns final_<name> in the same directory.
\* _merge_audio_video itself returns video_path on every failure.
C4_AddAudioDegradesToVideoPath ==
    (a_pc = "done" /\ entry = "add_audio") =>
        /\ ~a_trail.raised
        /\ (a_trail.stage_raised # "none" \/ a_trail.merge \in
               {"import_error", "error"}) => a_result = video_path
        /\ (a_trail.stage_raised = "none" /\ a_trail.merge = "ok") =>
              /\ a_result = FinalPath(video_path)
              /\ a_result.dir = video_path.dir
              /\ a_result.name = video_path.name
              /\ a_result.prefix = "final_"
        /\ a_trail.merge \in {"import_error", "error"} =>
              a_trail.merge_returned = video_path
        /\ a_trail.stage_raised # "none" \/ a_trail.merge # "none"

C4_Witness ==
    /\ a_pc = "done"
    /\ entry = "add_audio"
    /\ a_trail.stage_raised = "voice"
    /\ a_result = video_path
    /\ video_path \in VideoPaths

C8_LoopsStopAtDuration ==
    /\ [](/\ melody_time <= music_duration * 1000
          /\ harmony_time <= music_duration * 1000)
    /\ [](a_pc \in {"harmony", "rhythm", "export"} =>
             melody_time = music_duration * 1000)
    /\ [](a_pc \in {"rhythm", "export"} =>
             harmony_time = music_duration * 1000)
    /\ [][(a_pc = "melody" /\ a_pc' = "melody") =>
             melody_time' > melody_time]_vars
    /\ [][(a_pc = "harmony" /\ a_pc' = "harmony") =>
             harmony_time' > harmony_time]_vars

\* the melody loop has reached the duration on a clamped note
C8_Witness ==
    /\ a_pc = "melody"
    /\ music_duration = 2
    /\ melody_time = music_duration * 1000
    /\ note_duration = 400

\* C9: every pass of the harmony loop adds a chord segment of the chosen
\* chord duration, so the harmony layer is as long as the time accumulated
\* and, at loop exit, as long as the requested duration.
C9_HarmonyHasRequestedLength ==
    /\ a_pc \in {"harmony", "rhythm", "export"} => harmony = harmony_time
    /\ a_pc \in {"rhythm", "export"} => harmony = music_duration * 1000

\* C10: every beat slot adds a hit or silence to the rhythm layer, so the
\* hit of beat slot k starts k * beat_interval into the layer
\* (beat_interval = 60 / tempo seconds).
C10_HitStartsOnItsBeat ==
    last_hit # NoHit =>
        last_hit.start * StyleConfig(style).tempo = last_hit.beat * MsPerMinute

\* C16: a request with a style name that is not one of the four profiles
\* is served with the "upbeat_cute" profile in the melody, harmony, rhythm
\* and effects stages, and the lookup of the name does not end the request.
C16_UnknownStyleUsesUpbeatCute ==
    (entry # "none" /\ style \notin DOMAIN music_styles) =>
        /\ StyleConfig(style) \in {music_styles[n] : n \in DOMAIN music_styles}
        /\ a_trail.melody_scale \in {<<>>, music_styles["upbeat_cute"].scale}
        /\ a_trail.harmony_chords \in
              {<<>>, music_styles["upbeat_cute"].chords}
        /\ a_trail.rhythm_tempo \in {0, music_styles["upbeat_cute"].tempo}
        /\ a_trail.effects_mood \in
              {"none", music_styles["upbeat_cute"].mood}
        /\ (a_pc \in {"voice", "combine", "merge"} /\ music.kind = "advanced")
              => /\ a_trail.melody_scale = music_styles["upbeat_cute"].scale
                 /\ a_trail.harmony_chords =
                       music_styles["upbeat_cute"].chords
                 /\ a_trail.rhythm_tempo = music_styles["upbeat_cute"].tempo
                 /\ a_trail.effects_mood = music_styles["upbeat_cute"].mood
                 /\ ~a_trail.raised

\* add_audio with an unknown style name has its music and goes on to the
\* voice
C16_Witness ==
    /\ entry = "add_audio"
    /\ style = "lofi_unknown"
    /\ a_pc = "voice"
    /\ music.kind = "advanced"
    /\ a_trail.rhythm_tempo = 120
    /\ a_trail.effects_mood = "happy"

(***************************************************************************)
(* AudioAgent helpers called on their own.                                 *)
(***************************************************************************)
\* _mix_music_layers(melody, harmony, rhythm, style_config)
MixMusicLayers ==
    /\ \E m \in LayerLengths, h \in LayerLengths, r \in LayerLengths :
          music_call' = [fn |-> "_mix_music_layers",
                         args |-> <<m, h, r>>,
                         ret |-> [len |-> MixLayers(m, h, r),
                                  heard |-> MixHeard(m, h, r)]]
    /\ UNCHANGED nonHelperVars

\* _get_major_third(note)
GetMajorThird ==
    /\ \E k \in 1..Len(notes) :
          music_call' = [fn |-> "_get_major_third", args |-> <<notes[k]>>,
                         ret |-> get_major_third(notes[k])]
    /\ UNCHANGED nonHelperVars

\* _get_minor_third(note)
GetMinorThird ==
    /\ \E k \in 1..Len(notes) :
          music_call' = [fn |-> "_get_minor_third", args |-> <<notes[k]>>,
                         ret |-> get_minor_third(notes[k])]
    /\ UNCHANGED nonHelperVars

\* _get_perfect_fifth(note)
GetPerfectFifth ==
    /\ \E k \in 1..Len(notes) :
          music_call' = [fn |-> "_get_perfect_fifth", args |-> <<notes[k]>>,
                         ret |-> get_perfect_fifth(notes[k])]
    /\ UNCHANGED nonHelperVars

\* _get_chord_notes(chord)
GetChordNotes ==
    /\ \E c \in ChordSymbols :
          music_call' = [fn |-> "_get_chord_notes", args |-> <<c>>,
                         ret |-> get_chord_notes(c)]
    /\ UNCHANGED nonHelperVars

HelperNext ==
    \/ MixMusicLayers
    \/ GetMajorThird
    \/ GetMinorThird
    \/ GetPerfectFifth
    \/ GetChordNotes

SpecHelpers == Init /\ [][HelperNext]_vars

(***************************************************************************)
(* Properties of the helpers.                                              *)
(***************************************************************************)
\* C11: for all layer lengths, _mix_music_layers returns a segment as long
\* as the longest of melody, harmony and rhythm, and the mixed segment
\* contains every layer in full.
C11_MixSpansLongestLayer ==
    music_call.fn = "_mix_music_layers" =>
        /\ music_call.ret.len = Max3(music_call.args[1], music_call.args[2],
                                     music_call.args[3])
        /\ music_call.ret.heard = music_call.args

\* How many semitones b lies above a, modulo the octave.
SemitonesUp(a, b) == (NoteIndex(b) - NoteIndex(a) + 12) % 12

\* C15: for each of the 12 note names as root, _get_major_third,
\* _get_minor_third and _get_perfect_fifth return the note 4, 3 and 7
\* semitones above it modulo 12 (C gives E, D# and G; the fifth of G is D),
\* and _get_chord_notes returns the frequencies of root, third and fifth,
\* the third being the minor third exactly when the symbol ends with 'm'.
C15_ChordTones ==
    LET arg == music_call.args[1]
        ret == music_call.ret
    IN  /\ music_call.fn = "_get_major_third" =>
              /\ ret \in Range(notes)
              /\ SemitonesUp(arg, ret) = 4
              /\ arg = <<"C">> => ret = <<"E">>
        /\ music_call.fn = "_get_minor_third" =>
              /\ ret \in Range(notes)
              /\ SemitonesUp(arg, ret) = 3
              /\ arg = <<"C">> => ret = <<"D", "#">>
        /\ music_call.fn = "_get_perfect_fifth" =>
              /\ ret \in Range(notes)
              /\ SemitonesUp(arg, ret) = 7
              /\ arg = <<"C">> => ret = <<"G">>
              /\ arg = <<"G">> => ret = <<"D">>
        /\ music_call.fn = "_get_chord_notes" =>
              LET minor == arg[Len(arg)] = "m"
                  root == IF minor THEN SubSeq(arg, 1, Len(arg) - 1) ELSE arg
              IN  /\ Len(ret) = 3
                  /\ ret[1] = note_frequencies(root)
                  /\ \E t \in Range(notes) :
                        /\ SemitonesUp(root, t) = IF minor THEN 3 ELSE 4
                        /\ ret[2] = note_frequencies(t)
                  /\ \E f \in Range(notes) :
                        /\ SemitonesUp(root, f) = 7
                        /\ ret[3] = note_frequencies(f)

\* a minor chord on a sharp root, whose fifth wraps past the end of the list
C15_Witness ==
    /\ music_call.fn = "_get_chord_notes"
    /\ music_call.args = << <<"F", "#", "m">> >>
    /\ music_call.ret = <<36999, 44000, 27718>>

(***************************************************************************)
(* Two runs of a frame loop on one constructed agent, their passes in any  *)
(* order.                                                                  *)
(***************************************************************************)
RunIds == {"first", "second"}

\* range(duration * self.fps) or range(duration * 3)
LoopFrames(kind, d) ==
    IF kind = "simple" THEN NumSimpleFrames(d) ELSE NumFrames(d, fps)

\* _create_fallback_video or _create_simple_video reaches its frame loop
StartRun(r) ==
    /\ v_pc = "ready"
    /\ runs[r].kind = "none"
    /\ \E kind \in {"fallback", "simple"}, d \in 0..MaxDuration :
          runs' = [runs EXCEPT ![r] = [kind |-> kind, duration |-> d,
                                       i |-> 0, frames |-> <<>>]]
    /\ UNCHANGED nonRenderVars

\* one pass of the frame loop of run r
RenderPass(r) ==
    /\ runs[r].kind # "none"
    /\ runs[r].i < LoopFrames(runs[r].kind, runs[r].duration)
    /\ runs' = [runs EXCEPT
          ![r].frames = Append(@, RenderFrame(runs[r].kind, runs[r].i,
                            resolution,
                            LoopFrames(runs[r].kind, runs[r].duration),
                            runs[r].frames)),
          ![r].i = @ + 1]
    /\ UNCHANGED nonRenderVars

\* the loop of run r is over and the function returns
FinishRun(r) ==
    /\ runs[r].kind # "none"
    /\ ~(runs[r].i < LoopFrames(runs[r].kind, runs[r].duration))
    /\ runs' = [runs EXCEPT ![r] = NoRun]
    /\ UNCHANGED nonRenderVars

RenderNext ==
    \/ Construct
    \/ \E r \in RunIds : StartRun(r)
    \/ \E r \in RunIds : RenderPass(r)
    \/ \E r \in RunIds : FinishRun(r)

SpecRender == Init /\ [][RenderNext]_vars

ValidHues == 0..359
ValidPercents == {10 * k : k \in 0..10} \cup {1, 99}

\* Arguments outside the declared ranges.
InvalidHues == {-361, -360, -30, -1, 360, 400, 720}
InvalidPercents == {-10, -1, 101, 150, 200}

\* _hsv_to_rgb(h, s, v): the call, up to its return statement
HsvToRgb ==
    /\ hsv_call = NoHsvCall
    /\ \E h \in ValidHues \cup InvalidHues,
          s \in ValidPercents \cup InvalidPercents,
          v \in ValidPercents \cup InvalidPercents :
          hsv_call' = [args |-> <<h, s, v>>, ret |-> hsv_to_rgb(h, s, v)]
    /\ UNCHANGED nonColorVars

\* the caller has taken the returned triple
HsvReturned ==
    /\ hsv_call # NoHsvCall
    /\ hsv_call' = NoHsvCall
    /\ UNCHANGED nonColorVars

ColorNext ==
    \/ HsvToRgb
    \/ HsvReturned

SpecColor == Init /\ [][ColorNext]_vars

\* The call's arguments lie in h in [0, 360), s and v in [0, 100].
ValidArgs ==
    /\ hsv_call # NoHsvCall
    /\ hsv_call.args[1] >= 0 /\ hsv_call.args[1] < 360
    /\ hsv_call.args[2] >= 0 /\ hsv_call.args[2] <= 100
    /\ hsv_call.args[3] >= 0 /\ hsv_call.args[3] <= 100

ChannelsInRange ==
    /\ Len(hsv_call.ret) = 3
    /\ \A c \in 1..3 : hsv_call.ret[c] \in 0..255

\* C17: for h in [0, 360), s and v in [0, 100], _hsv_to_rgb returns a triple
\* of integers in [0, 255], in each hue sector and in the s = 0 branch.
C17_ChannelsInRangeOnValidDomain ==
    ValidArgs => ChannelsInRange

\* a saturated colour of the last hue sector
C17_Witness ==
    /\ hsv_call.args = <<330, 80, 90>>
    /\ hsv_call.ret = <<229, 45, 137>>

\* C18: for every h in [0, 360) and v in [0, 100], _hsv_to_rgb(h, 0, v)
\* returns three equal channels, each the integer nearest to 255 * v / 100.
C18_GreyIsRoundedValue ==
    (ValidArgs /\ hsv_call.args[2] = 0) =>
        /\ hsv_call.ret[1] = hsv_call.ret[2]
        /\ hsv_call.ret[2] = hsv_call.ret[3]
        /\ \A c \in 1..3 :
              /\ 100 * hsv_call.ret[c] - 255 * hsv_call.args[3] <= 50
              /\ 255 * hsv_call.args[3] - 100 * hsv_call.ret[c] <= 50

\* C19: for arguments outside the declared ranges _hsv_to_rgb returns what
\* it returns for the arguments clamped or reduced modulo into the valid
\* range, so the channels are integers in [0, 255].
C19_OutOfRangeIsNormalised ==
    LET Clamped(x, lo, hi) == Min(Max(x, lo), hi)
    IN  (hsv_call # NoHsvCall /\ ~ValidArgs) =>
            /\ ChannelsInRange
            /\ \E h \in {PyMod(hsv_call.args[1], 360),
                         Clamped(hsv_call.args[1], 0, 359)},
                  s \in {Clamped(hsv_call.args[2], 0, 100),
                         PyMod(hsv_call.args[2], 101)},
                  v \in {Clamped(hsv_call.args[3], 0, 100),
                         PyMod(hsv_call.args[3], 101)} :
                  hsv_call.ret = hsv_to_rgb(h, s, v)

(***************************************************************************)
(* DatabaseManager: the operations on table `content`.                     *)
(***************************************************************************)
\* DatabaseManager.initialize: connect, CREATE TABLE IF NOT EXISTS
DbInitialize ==
    /\ connection' = TRUE
    /\ db_call' = [fn |-> "initialize", arg |-> None, ok |-> TRUE,
                   ret |-> <<>>, connected |-> TRUE]
    /\ UNCHANGED <<content_rows, db_clock, last_saved>>
    /\ UNCHANGED nonDbVars

\* DatabaseManager.cleanup: close the connection
DbCleanup ==
    /\ connection' = FALSE
    /\ db_call' = [fn |-> "cleanup", arg |-> None, ok |-> TRUE,
                   ret |-> <<>>, connected |-> connection]
    /\ UNCHANGED <<content_rows, db_clock, last_saved>>
    /\ UNCHANGED nonDbVars

\* DatabaseManager.save_content(content)
SaveContent ==
    /\ db_clock < MaxSaves
    /\ db_clock' = db_clock + 1
    /\ \E c \in Contents, io \in {"ok", "error"} :
          IF SaveError(c, io) = "none"
            THEN /\ content_rows' =
                       InsertOrReplace(content_rows, RowOf(c, db_clock + 1))
                 /\ last_saved' = [last_saved EXCEPT ![c["id"]] =
                       [content |-> c, count |-> @.count + 1]]
                 /\ db_call' = [fn |-> "save_content", arg |-> c["id"],
                                ok |-> TRUE, ret |-> <<>>,
                                connected |-> connection]
            ELSE /\ db_call' = [fn |-> "save_content", arg |-> c["id"],
                                ok |-> FALSE, ret |-> <<>>,
                                connected |-> connection]
                 /\ UNCHANGED <<content_rows, last_saved>>
    /\ UNCHANGED connection
    /\ UNCHANGED nonDbVars

\* DatabaseManager.get_content(content_id); without a connection the
\* handler returns None
GetContent ==
    /\ \E id \in ContentIds \cup {NeverSavedId} :
          db_call' = [fn |-> "get_content", arg |-> id, ok |-> TRUE,
                      ret |-> IF connection THEN FetchOne(content_rows, id)
                                            ELSE <<>>,
                      connected |-> connection]
    /\ UNCHANGED <<connection, content_rows, db_clock, last_saved>>
    /\ UNCHANGED nonDbVars

DbNext ==
    \/ DbInitialize
    \/ DbCleanup
    \/ SaveContent
    \/ GetContent

SpecDb == Init /\ [][DbNext]_vars

\* C20: on an open database, get_content(id) returns the record of the
\* most recent save_content of that id that returned True: the seven text
\* fields as saved (None for a key the dict did not have), tags as the
\* saved list; an id has at most one row however often it was saved, and
\* an id never saved gives None.
C20_GetReturnsLastSaved ==
    /\ \A id \in ContentIds :
          Cardinality({row \in content_rows : row.id = id}) <= 1
    /\ (db_call.fn = "get_content" /\ db_call.connected) =>
          LET saved == last_saved[db_call.arg]
          IN  IF saved.count = 0
                THEN db_call.ret = <<>>
                ELSE /\ Len(db_call.ret) = 1
                     /\ db_call.ret[1].id = db_call.arg
                     /\ db_call.ret[1].title = saved.content["title"]
                     /\ db_call.ret[1].description =
                           saved.content["description"]
                     /\ db_call.ret[1].category =
                           DictGet(saved.content, "category")
                     /\ db_call.ret[1].theme = DictGet(saved.content, "theme")
                     /\ db_call.ret[1].script = DictGet(saved.content, "script")
                     /\ db_call.ret[1].video_path =
                           DictGet(saved.content, "video_path")
                     /\ db_call.ret[1].created_at =
                           DictGet(saved.content, "created_at")
                     /\ db_call.ret[1].tags =
                           IF "tags" \in DOMAIN saved.content
                             THEN saved.content["tags"] ELSE <<>>

\* test_001 was saved twice, last with two tags, and is read back
C20_Witness ==
    /\ db_call.fn = "get_content"
    /\ db_call.connected
    /\ db_call.arg = "test_001"
    /\ last_saved["test_001"].count = 2
    /\ Len(db_call.ret) = 1
    /\ db_call.ret[1].title = "Test Video"
    /\ db_call.ret[1].tags = <<"test", "demo">>

(***************************************************************************)
(* ContentScheduler: the upload queue.                                     *)
(*                                                                         *)
(* A content item is a dict; its scheduled_time and created_at are either  *)
(* a datetime (ContentAgent's optimal_time, queued by main.py) or an ISO   *)
(* string (created_at of ContentAgent, scheduled_time of test_system.py).  *)
(* Both kinds carry the instant they denote, in ticks.                     *)
(***************************************************************************)
MaxQueue == 3         \* queue_content is called while the queue is shorter

DatetimeMax == 99     \* datetime.max, after every instant of the model

Datetime(n) == [type |-> "datetime", at |-> n]

IsoString(n) == [type |-> "str", at |-> n]

GetOr(d, key, default) == IF key \in DOMAIN d THEN d[key] ELSE default

\* the items the callers of the repository queue
QueueItems ==
    { \* main.py: scheduled_time is idea['optimal_time'], a datetime
      [id |-> "idea_0", title |-> "A tiny puppy",
       scheduled_time |-> Datetime(1)],
      [id |-> "idea_1", title |-> "A fluffy kitten",
       scheduled_time |-> Datetime(0)],
      \* cli.py: the idea itself, created_at an ISO string
      [id |-> "idea_2", title |-> "A baby bunny",
       created_at |-> IsoString(1)],
      [id |-> "idea_3", title |-> "A tiny puppy",
       created_at |-> IsoString(0)],
      \* test_system.py: scheduled_time an ISO string
      [id |-> "sched_test_001", title |-> "Scheduled Test Video",
       scheduled_time |-> IsoString(1)],
      [id |-> "sched_test_002", title |-> "Scheduled Test Video",
       scheduled_time |-> IsoString(0)],
      \* an item without a title
      [id |-> "untitled", scheduled_time |-> IsoString(2)] }

QueueIds == {c.id : c \in QueueItems}

\* key=lambda x: (x.get('scheduled_time', datetime.max),
\*                x.get('created_at', datetime.max))
SortKey(x) == <<GetOr(x, "scheduled_time", Datetime(DatetimeMax)),
                GetOr(x, "created_at", Datetime(DatetimeMax))>>

\* tuple comparison: the first pair of unequal elements is compared with <,
\* which raises TypeError between a datetime and a str
KeyCompareRaises(k1, k2) ==
    IF k1[1] # k2[1] THEN k1[1].type # k2[1].type
    ELSE k1[2] # k2[2] /\ k1[2].type # k2[2].type

KeyLess(k1, k2) ==
    IF k1[1] # k2[1] THEN k1[1].at < k2[1].at
    ELSE k1[2] # k2[2] /\ k1[2].at < k2[2].at

\* list.sort raises when two of the keys it has to order cannot be compared
SortRaises(q) ==
    \E a, b \in 1..Len(q) : KeyCompareRaises(SortKey(q[a]), SortKey(q[b]))

\* x goes behind the items that are not greater: the sort is stable
InsertByKey(sorted, x) ==
    LET behind == {k \in 1..Len(sorted) :
                      ~KeyLess(SortKey(x), SortKey(sorted[k]))}
        n == IF behind = {} THEN 0
             ELSE CHOOSE k \in behind : \A m \in behind : m <= k
    IN  SubSeq(sorted, 1, n) \o <<x>> \o SubSeq(sorted, n + 1, Len(sorted))

RECURSIVE SortByKey(_)
SortByKey(q) ==
    IF q = <<>> THEN <<>>
    ELSE InsertByKey(SortByKey(SubSeq(q, 1, Len(q) - 1)), q[Len(q)])

Occurrences(q, x) == Cardinality({k \in 1..Len(q) : q[k] = x})

Rearrangements(q) ==
    {r \in [1..Len(q) -> Range(q)] :
        \A x \in Range(q) : Occurrences(r, x) = Occurrences(q, x)}

\* a sort that raised leaves the list with all its items, in the order the
\* sort had reached ("partially modified state")
SortFailureLeaves_rollback(appended) ==
    {SubSeq(appended, 1, Len(appended) - 1)}

SortFailureLeaves(appended) == Rearrangements(appended)

\* the queues queue_content(content) can leave, with the line it logged
queue_content(queue, content) ==
    LET appended == Append(queue, content)
    IN  IF SortRaises(appended)
          THEN {[queue |-> r, logged |-> "error"] :
                   r \in SortFailureLeaves(appended)}
          ELSE {[queue |-> SortByKey(appended),
                 logged |-> IF "title" \in DOMAIN content
                              THEN "info" ELSE "error"]}

\* [c for c in self.content_queue if c['id'] != content_id]
WithoutId(queue, content_id) ==
    LET Keep(c) == c.id # content_id IN SelectSeq(queue, Keep)

\* ContentScheduler.queue_content(content)
QueueContent ==
    /\ Len(content_queue) < MaxQueue
    /\ \E c \in QueueItems : \E out \in queue_content(content_queue, c) :
          /\ content_queue' = out.queue
          /\ sched_call' = [fn |-> "queue_content", arg |-> c,
                            before |-> content_queue,
                            logged |-> out.logged, ret |-> None]
    /\ UNCHANGED <<last_generation, last_upload, sched_now>>
    /\ UNCHANGED nonSchedVars

\* ContentScheduler.mark_uploaded(content_id)
MarkUploaded ==
    /\ \E id \in QueueIds :
          /\ content_queue' = WithoutId(content_queue, id)
          /\ sched_call' = [fn |-> "mark_uploaded", arg |-> id,
                            before |-> content_queue,
                            logged |-> "info", ret |-> None]
    /\ last_upload' = sched_now
    /\ UNCHANGED <<last_generation, sched_now>>
    /\ UNCHANGED nonSchedVars

\* ContentScheduler.get_queued_content()
GetQueuedContent ==
    /\ sched_call.fn # "get_queued_content"
    /\ sched_call' = [fn |-> "get_queued_content", arg |-> None,
                      before |-> content_queue, logged |-> "none",
                      ret |-> content_queue]
    /\ UNCHANGED <<content_queue, last_generation, last_upload, sched_now>>
    /\ UNCHANGED nonSchedVars

SchedNext ==
    \/ QueueContent
    \/ MarkUploaded
    \/ GetQueuedContent

SpecScheduler == Init /\ [][SchedNext]_vars

\* C21: when queue_content(c) has returned, the queue holds c and every
\* item it held before, each as often as before (c once more); the call
\* returns None also when the sort raised or the log line found no title.
C21_QueueContentKeepsEveryItem ==
    sched_call.fn = "queue_content" =>
       /\ sched_call.ret = None
       /\ Len(content_queue) = Len(sched_call.before) + 1
       /\ \A x \in Range(sched_call.before) \cup {sched_call.arg} :
             Occurrences(content_queue, x) =
                Occurrences(sched_call.before, x)
                   + (IF x = sched_call.arg THEN 1 ELSE 0)

\* the sort raised on a datetime against an ISO string and the item
\* queued last is in the queue with the two queued before
C21_Witness ==
    /\ sched_call.fn = "queue_content"
    /\ sched_call.logged = "error"
    /\ SortRaises(Append(sched_call.before, sched_call.arg))
    /\ Len(sched_call.before) = 2
    /\ sched_call.arg.id = "idea_0"
    /\ \E k \in 1..Len(content_queue) : content_queue[k] = sched_call.arg

\* the order the sort key gives, as far as two items can be compared
InPriorityOrder(q) ==
    \A a, b \in 1..Len(q) :
       (a < b /\ ~KeyCompareRaises(SortKey(q[a]), SortKey(q[b])))
          => ~KeyLess(SortKey(q[b]), SortKey(q[a]))

\* C29: after any sequence of queue_content and mark_uploaded calls the
\* queue is ordered by scheduled_time, then created_at (an item is never
\* in front of one whose key is smaller), and mark_uploaded(id) leaves the
\* other items in the order they had.
C29_QueueKeptInPriorityOrder ==
    /\ InPriorityOrder(content_queue)
    /\ sched_call.fn = "mark_uploaded" =>
          content_queue = WithoutId(sched_call.before, sched_call.arg)

(***************************************************************************)
(* ContentScheduler.get_next_upload_time.                                  *)
(*                                                                         *)
(* A datetime is [day, hour, minute, second]; the seconds stand for the    *)
(* part of datetime.now() below the minute, which replace() sets to zero.  *)
(***************************************************************************)
\* self.upload_times = ["09:00", "12:00", "15:00", "18:00"]
upload_times == << <<"0", "9", ":", "0", "0">>, <<"1", "2", ":", "0", "0">>,
                   <<"1", "5", ":", "0", "0">>, <<"1", "8", ":", "0", "0">> >>

Digits == {"0", "1", "2", "3", "4", "5", "6", "7", "8", "9"}

DigitValue(ch) ==
    CASE ch = "0" -> 0 [] ch = "1" -> 1 [] ch = "2" -> 2 [] ch = "3" -> 3
      [] ch = "4" -> 4 [] ch = "5" -> 5 [] ch = "6" -> 6 [] ch = "7" -> 7
      [] ch = "8" -> 8 [] ch = "9" -> 9

\* int(text) of a string of decimal digits
RECURSIVE ParseInt(_)
ParseInt(text) ==
    IF text = <<>> THEN 0
    ELSE 10 * ParseInt(SubSeq(text, 1, Len(text) - 1))
           + DigitValue(text[Len(text)])

\* upload_time_str.split(':')
RECURSIVE SplitColon(_)
SplitColon(text) ==
    IF \A k \in 1..Len(text) : text[k] # ":" THEN <<text>>
    ELSE LET at == CHOOSE k \in 1..Len(text) :
                      text[k] = ":" /\ \A m \in 1..(k - 1) : text[m] # ":"
         IN  <<SubSeq(text, 1, at - 1)>>
                \o SplitColon(SubSeq(text, at + 1, Len(text)))

\* int(time_parts[0]), int(time_parts[1]) and now.replace(...) go through
IsClockTime(time_parts) ==
    /\ Len(time_parts) >= 2
    /\ \A k \in 1..2 : /\ time_parts[k] # <<>>
                       /\ Range(time_parts[k]) \subseteq Digits
    /\ ParseInt(time_parts[1]) \in 0..23
    /\ ParseInt(time_parts[2]) \in 0..59

SecondsPerDay == 86400

\* the order of datetimes
Instant(dt) ==
    dt.day * SecondsPerDay + dt.hour * 3600 + dt.minute * 60 + dt.second

\* one pass of the loop body for upload_times[k..]: the first entry that
\* parses is returned, an entry that does not parse is logged and skipped
RECURSIVE NextUploadFrom(_, _)
NextUploadFrom(k, now) ==
    IF k > Len(upload_times) THEN <<>>
    ELSE LET time_parts == SplitColon(upload_times[k])
         IN  IF ~IsClockTime(time_parts)
               THEN NextUploadFrom(k + 1, now)
               ELSE LET upload_time ==
                           [day |-> now.day,
                            hour |-> ParseInt(time_parts[1]),
                            minute |-> ParseInt(time_parts[2]),
                            second |-> 0]
                    IN  IF Instant(upload_time) <= Instant(now)
                          THEN <<[upload_time EXCEPT !.day = @ + 1]>>
                          ELSE <<upload_time>>

\* get_next_upload_time(): <<datetime>>, or <<>> for None
get_next_upload_time(now) == NextUploadFrom(1, now)

\* datetime.now(): any minute of day 0, on the minute or half past it
Nows == [day : {0}, hour : 0..23, minute : 0..59, second : {0, 30}]

\* ContentScheduler.get_next_upload_time()
GetNextUploadTime ==
    /\ upload_time_call = NoUploadTimeCall
    /\ \E now \in Nows :
          upload_time_call' = [now |-> now, ret |-> get_next_upload_time(now)]
    /\ UNCHANGED nonTimeVars

UploadTimeReturned ==
    /\ upload_time_call # NoUploadTimeCall
    /\ upload_time_call' = NoUploadTimeCall
    /\ UNCHANGED nonTimeVars

UploadTimeNext ==
    \/ GetNextUploadTime
    \/ UploadTimeReturned

SpecUploadTime == Init /\ [][UploadTimeNext]_vars

\* the next time the clock shows upload_times[k], strictly after now
NextOccurrence(k, now) ==
    LET parts == SplitColon(upload_times[k])
        today == [day |-> now.day, hour |-> ParseInt(parts[1]),
                  minute |-> ParseInt(parts[2]), second |-> 0]
    IN  IF Instant(today) > Instant(now) THEN today
        ELSE [today EXCEPT !.day = @ + 1]

\* C28: get_next_upload_time returns the earliest of the next occurrences
\* of the four upload times, an instant strictly after now.
C28_NextUploadIsEarliest ==
    upload_time_call # NoUploadTimeCall =>
       /\ Len(upload_time_call.ret) = 1
       /\ Instant(upload_time_call.ret[1]) > Instant(upload_time_call.now)
       /\ \E k \in 1..Len(upload_times) :
             upload_time_call.ret[1] = NextOccurrence(k, upload_time_call.now)
       /\ \A k \in 1..Len(upload_times) :
             Instant(upload_time_call.ret[1])
                <= Instant(NextOccurrence(k, upload_time_call.now))

(***************************************************************************)
(* ContentAgent.generate_ideas.                                            *)
(*                                                                         *)
(* Strings are sequences of pieces of text; a template holds its           *)
(* placeholders as pieces of their own.                                    *)
(***************************************************************************)
MaxCount == 2         \* generate_ideas is called with count 0..MaxCount
MaxDraw == 1          \* random.choice is observed through draws 0..MaxDraw

\* ContentAgent._load_idea_templates
idea_templates ==
    << [category |-> "cute_animals",
        template |-> <<"A ", "{animal}", " doing ", "{action}", " in ",
                       "{setting}">>,
        variables |-> [animal |-> <<"tiny puppy", "fluffy kitten",
                                    "baby bunny">>,
                       action |-> <<"playing", "sleeping", "eating",
                                    "exploring">>,
                       setting |-> <<"garden", "home", "park", "beach">>]],
       [category |-> "funny_pets",
        template |-> <<"{animal}", " ", "{funny_action}", " while ",
                       "{owner_action}">>,
        variables |-> [animal |-> <<"cat", "dog", "hamster", "bird">>,
                       funny_action |-> <<"dances", "sings", "talks",
                                          "dresses up">>,
                       owner_action |-> <<"cooking", "working",
                                          "exercising">>]] >>

\* ContentAgent._load_script_templates
script_templates ==
    << [type |-> "narrative",
        template |-> <<"Once upon a time, there was a ", "{animal}",
                       " who loved to ", "{action}", ". Every day, ",
                       "{animal}", " would ", "{daily_routine}", ".">>,
        variables |-> [animal |-> <<"little puppy", "curious kitten",
                                    "brave bunny">>,
                       action |-> <<"explore", "play", "learn",
                                    "help others">>,
                       daily_routine |-> <<"wake up early",
                                           "go on adventures">>]] >>

IdeaThemes == {"cute_animals", "funny_pets", "space_cats"}

\* f"{{{var_name}}}"
Placeholder(var_name) ==
    CASE var_name = "animal" -> "{animal}"
      [] var_name = "action" -> "{action}"
      [] var_name = "setting" -> "{setting}"
      [] var_name = "funny_action" -> "{funny_action}"
      [] var_name = "owner_action" -> "{owner_action}"
      [] var_name = "daily_routine" -> "{daily_routine}"

\* random.choice(var_values), as the draw decides
Choice(var_values, draw) == var_values[(draw % Len(var_values)) + 1]

\* the loop `for var_name, var_values in ...: s = s.replace(...)`
FillTemplate(t, draw) ==
    [k \in 1..Len(t.template) |->
        IF \E var_name \in DOMAIN t.variables :
              Placeholder(var_name) = t.template[k]
          THEN Choice(t.variables[CHOOSE var_name \in DOMAIN t.variables :
                         Placeholder(var_name) = t.template[k]], draw)
          ELSE t.template[k]]

\* next((t for t in templates if t[key] == wanted), templates[0])
FirstMatch(templates, key, wanted) ==
    IF \E k \in 1..Len(templates) : templates[k][key] = wanted
      THEN templates[CHOOSE k \in 1..Len(templates) :
              /\ templates[k][key] = wanted
              /\ \A m \in 1..(k - 1) : templates[m][key] # wanted]
      ELSE templates[1]

\* ContentAgent._generate_template_idea
generate_template_idea(theme, draw) ==
    LET filled == FillTemplate(FirstMatch(idea_templates, "category", theme),
                               draw)
    IN  [title |-> filled,
         description |-> <<"A delightful video featuring ">> \o filled
                            \o <<". Perfect for animal lovers!">>,
         category |-> theme]

\* "funny" in category
get_script_type(category) ==
    IF category = "funny_pets" THEN "funny" ELSE "narrative"

\* ContentAgent._generate_script
generate_script(idea, draw) ==
    FillTemplate(FirstMatch(script_templates, "type",
                            get_script_type(idea.category)), draw)
       \o <<"\n\nDon't forget to like and share!">>

\* theme.replace('_', ' ')
Spaced(theme) ==
    CASE theme = "cute_animals" -> "cute animals"
      [] theme = "funny_pets" -> "funny pets"
      [] theme = "space_cats" -> "space cats"

\* theme.replace('_', ' ').title()
Titled(theme) ==
    CASE theme = "cute_animals" -> "Cute Animals"
      [] theme = "funny_pets" -> "Funny Pets"
      [] theme = "space_cats" -> "Space Cats"

\* f"{i+1}"
NumberText(n) ==
    CASE n = 1 -> "1" [] n = 2 -> "2" [] n = 3 -> "3" [] n = 4 -> "4"
      [] OTHER -> "5"

\* the dict built in the loop body of generate_ideas
IdeaData(n, theme, draw) ==
    LET idea == generate_template_idea(theme, draw)
    IN  [id |-> [prefix |-> "idea", i |-> n],
         title |-> idea.title,
         description |-> idea.description,
         category |-> idea.category,
         theme |-> theme,
         script |-> generate_script(idea, draw),
         optimal_time |-> 2 * n]

FallbackIdea(n, theme) ==
    [id |-> [prefix |-> "fallback", i |-> n],
     title |-> <<"Adorable ", Titled(theme), " Moment #", NumberText(n + 1)>>,
     description |-> <<"A heartwarming video showcasing the cutest ",
                       Spaced(theme), " moments!">>,
     category |-> theme,
     theme |-> theme,
     script |-> <<"Watch this amazing ", Spaced(theme), " video!">>,
     optimal_time |-> 2 * n]

generate_fallback_ideas_short(count, theme) ==
    [k \in 1..Max(count - 1, 0) |-> FallbackIdea(k - 1, theme)]

\* ContentAgent._generate_fallback_ideas
generate_fallback_ideas(count, theme) ==
    [k \in 1..count |-> FallbackIdea(k - 1, theme)]

\* generate_ideas(count, theme) is called
GenerateIdeas ==
    /\ g_pc = "idle"
    /\ \E count \in 0..MaxCount, theme \in IdeaThemes :
          /\ g_count' = count
          /\ g_theme' = theme
    /\ g_i' = 0
    /\ g_ideas' = <<>>
    /\ g_pc' = "loop"
    /\ UNCHANGED g_ret
    /\ UNCHANGED nonIdeaVars

\* one pass of `for i in range(count)`; a statement of the body that
\* raises leaves the loop for the handler
IdeaLoop ==
    /\ g_pc = "loop"
    /\ g_i < g_count
    /\ \/ \E draw \in 0..MaxDraw :
            /\ g_ideas' = Append(g_ideas, IdeaData(g_i, g_theme, draw))
            /\ g_i' = g_i + 1
            /\ UNCHANGED g_pc
       \/ /\ g_pc' = "except"
          /\ UNCHANGED <<g_ideas, g_i>>
    /\ UNCHANGED <<g_count, g_theme, g_ret>>
    /\ UNCHANGED nonIdeaVars

\* return ideas
IdeasReturn ==
    /\ g_pc = "loop"
    /\ g_i >= g_count
    /\ g_ret' = [path |-> "template", ideas |-> g_ideas]
    /\ g_pc' = "returned"
    /\ UNCHANGED <<g_count, g_theme, g_i, g_ideas>>
    /\ UNCHANGED nonIdeaVars

\* return self._generate_fallback_ideas(count, theme)
IdeasFallback ==
    /\ g_pc = "except"
    /\ g_ret' = [path |-> "fallback",
                 ideas |-> generate_fallback_ideas(g_count, g_theme)]
    /\ g_pc' = "returned"
    /\ UNCHANGED <<g_count, g_theme, g_i, g_ideas>>
    /\ UNCHANGED nonIdeaVars

\* the caller has the list
IdeasTaken ==
    /\ g_pc = "returned"
    /\ g_pc' = "idle"
    /\ UNCHANGED <<g_count, g_theme, g_i, g_ideas, g_ret>>
    /\ UNCHANGED nonIdeaVars

IdeasNext ==
    \/ GenerateIdeas
    \/ IdeaLoop
    \/ IdeasReturn
    \/ IdeasFallback
    \/ IdeasTaken

SpecIdeas == Init /\ [][IdeasNext]_vars

HasText(idea, key) == key \in DOMAIN idea /\ idea[key] # <<>>

\* C22: generate_ideas(count, theme) returns exactly count ideas, each
\* with a title and a script, from the template path and from the
\* fallback path alike.
C22_ReturnsCountIdeas ==
    g_pc = "returned" =>
       /\ Len(g_ret.ideas) = g_count
       /\ \A k \in 1..Len(g_ret.ideas) :
             /\ HasText(g_ret.ideas[k], "title")
             /\ HasText(g_ret.ideas[k], "script")

\* the template path raised after its first idea and the fallback path
\* returned two ideas
C22_Witness ==
    /\ g_pc = "returned"
    /\ g_ret.path = "fallback"
    /\ g_count = 2
    /\ Len(g_ideas) = 1
    /\ Len(g_ret.ideas) = 2
    /\ g_ret.ideas[2].title =
          <<"Adorable ", "Cute Animals", " Moment #", "2">>

(***************************************************************************)
(* ShortVideoGenerator.run_main_loop: daily generation and upload cycle.   *)
(*                                                                         *)
(* The clock sched_now counts ticks of two hours, the spacing of the       *)
(* optimal_time values of ContentAgent.                                    *)
(***************************************************************************)
MaxCycles == 3        \* passes of the main loop

daily_video_count == 3

TickHours == 2

TicksPerDay == 12

\* now.date()
DayOf(tick) == tick \div TicksPerDay

\* ContentScheduler.should_generate_daily()
should_generate_daily ==
    IF last_generation = None THEN TRUE
    ELSE IF DayOf(last_generation) < DayOf(sched_now) THEN TRUE
    ELSE IF Len(content_queue) < daily_video_count THEN TRUE
    ELSE FALSE

\* ContentScheduler.should_upload(content)
should_upload(content) ==
    IF "scheduled_time" \in DOMAIN content
          /\ sched_now >= content.scheduled_time.at THEN TRUE
    ELSE IF "created_at" \in DOMAIN content
               /\ content.created_at.type = "str"
               /\ sched_now - content.created_at.at > 1 THEN TRUE
    ELSE FALSE

\* the dict generate_daily_content queues for an idea
QueuedIdea(idea, stamp) ==
    [id |-> <<idea.id.prefix, stamp, idea.id.i>>,
     title |-> idea.title,
     description |-> idea.description,
     scheduled_time |-> Datetime(sched_now + idea.optimal_time \div TickHours)]

\* await self.db.update_upload_status(content['id'], results):
\* DatabaseManager has no attribute of that name
update_upload_status == "AttributeError"

\* run_main_loop() is entered, at four in the morning or at ten in the
\* evening
RunMainLoop ==
    /\ m_pc = "new"
    /\ m_pc' = "top"
    /\ \E start \in {2, TicksPerDay - 1} : sched_now' = start
    /\ UNCHANGED <<m_cycles, m_ideas, queued_content, m_k, upload_log,
                   m_generated_on>>
    /\ UNCHANGED <<content_queue, last_generation, last_upload, sched_call>>
    /\ UNCHANGED nonMainVars

\* if await self.scheduler.should_generate_daily(): generate_daily_content
\* starts with generate_ideas(count=daily_video_count, theme="cute_animals")
CheckDaily ==
    /\ m_pc = "top"
    /\ m_cycles < MaxCycles
    /\ sched_call' = [fn |-> "should_generate_daily", arg |-> None,
                      before |-> content_queue, logged |-> "none",
                      ret |-> should_generate_daily]
    /\ IF should_generate_daily
         THEN /\ m_pc' = "generate"
              /\ m_generated_on' = DayOf(sched_now)
              /\ \/ m_ideas' = [n \in 1..daily_video_count |->
                                   IdeaData(n - 1, "cute_animals", 0)]
                 \/ m_ideas' = generate_fallback_ideas(daily_video_count,
                                                       "cute_animals")
         ELSE /\ m_pc' = "upload_start"
              /\ UNCHANGED <<m_ideas, m_generated_on>>
    /\ UNCHANGED <<m_cycles, queued_content, m_k, upload_log>>
    /\ UNCHANGED <<content_queue, last_generation, last_upload, sched_now>>
    /\ UNCHANGED nonMainVars

\* one pass of `for idea in ideas`: the video and its audio are made and
\* the item is queued, or generate_video / add_audio raises and the
\* handler of generate_daily_content ends the batch
ProcessIdea ==
    /\ m_pc = "generate"
    /\ m_ideas # <<>>
    /\ \/ \E out \in queue_content(content_queue,
                                   QueuedIdea(Head(m_ideas), m_cycles)) :
            /\ content_queue' = out.queue
            /\ sched_call' = [fn |-> "queue_content",
                              arg |-> QueuedIdea(Head(m_ideas), m_cycles),
                              before |-> content_queue,
                              logged |-> out.logged, ret |-> None]
            /\ m_ideas' = Tail(m_ideas)
            /\ UNCHANGED m_pc
       \/ /\ m_pc' = "upload_start"
          /\ m_ideas' = <<>>
          /\ UNCHANGED <<content_queue, sched_call>>
    /\ UNCHANGED <<m_cycles, queued_content, m_k, upload_log, m_generated_on>>
    /\ UNCHANGED <<last_generation, last_upload, sched_now>>
    /\ UNCHANGED nonMainVars

\* the loop over the ideas is through
DailyContentDone ==
    /\ m_pc = "generate"
    /\ m_ideas = <<>>
    /\ m_pc' = "upload_start"
    /\ UNCHANGED <<m_cycles, m_ideas, queued_content, m_k, upload_log,
                   m_generated_on>>
    /\ UNCHANGED schedVars
    /\ UNCHANGED nonMainVars

\* run_upload_cycle: queued_content = await get_queued_content()
StartUploadCycle ==
    /\ m_pc = "upload_start"
    /\ queued_content' = content_queue
    /\ m_k' = 1
    /\ m_pc' = "upload"
    /\ sched_call' = [fn |-> "get_queued_content", arg |-> None,
                      before |-> content_queue, logged |-> "none",
                      ret |-> content_queue]
    /\ UNCHANGED <<m_cycles, m_ideas, upload_log, m_generated_on>>
    /\ UNCHANGED <<content_queue, last_generation, last_upload, sched_now>>
    /\ UNCHANGED nonMainVars

\* one pass of `for content in queued_content`: an item that is due is
\* uploaded, its status is written and it is marked uploaded; an exception
\* on the way ends the cycle in the handler of run_upload_cycle
UploadStep ==
    /\ m_pc = "upload"
    /\ m_k <= Len(queued_content)
    /\ LET content == queued_content[m_k]
       IN  IF ~should_upload(content)
             THEN /\ m_k' = m_k + 1
                  /\ UNCHANGED <<m_pc, upload_log>>
                  /\ UNCHANGED <<content_queue, last_upload, sched_call>>
             ELSE /\ upload_log' = Append(upload_log,
                                     [cycle |-> m_cycles, id |-> content.id])
                  /\ IF update_upload_status = "AttributeError"
                       THEN /\ m_pc' = "sleep"
                            /\ UNCHANGED <<m_k, content_queue, last_upload,
                                           sched_call>>
                       ELSE /\ content_queue' =
                                  WithoutId(content_queue, content.id)
                            /\ last_upload' = sched_now
                            /\ sched_call' =
                                  [fn |-> "mark_uploaded", arg |-> content.id,
                                   before |-> content_queue,
                                   logged |-> "info", ret |-> None]
                            /\ m_k' = m_k + 1
                            /\ UNCHANGED m_pc
    /\ UNCHANGED <<m_cycles, m_ideas, queued_content, m_generated_on>>
    /\ UNCHANGED <<last_generation, sched_now>>
    /\ UNCHANGED nonMainVars

\* the for loop is through
UploadCycleDone ==
    /\ m_pc = "upload"
    /\ m_k > Len(queued_content)
    /\ m_pc' = "sleep"
    /\ UNCHANGED <<m_cycles, m_ideas, queued_content, m_k, upload_log,
                   m_generated_on>>
    /\ UNCHANGED schedVars
    /\ UNCHANGED nonMainVars

\* await asyncio.sleep(60): the minute may end a tick of the clock
MainSleep ==
    /\ m_pc = "sleep"
    /\ m_pc' = "top"
    /\ m_cycles' = m_cycles + 1
    /\ \E passed \in {0, 1} : sched_now' = sched_now + passed
    /\ UNCHANGED <<m_ideas, queued_content, m_k, upload_log, m_generated_on>>
    /\ UNCHANGED <<content_queue, last_generation, last_upload, sched_call>>
    /\ UNCHANGED nonMainVars

\* ContentScheduler._mark_daily_generation_needed, the job scheduled for
\* 06:00, run by run_scheduler_loop while the main loop sleeps
MarkDailyGenerationNeeded ==
    /\ m_pc = "sleep"
    /\ sched_now % TicksPerDay = 3
    /\ m_generated_on # -1
    /\ last_generation' = None
    /\ m_generated_on' = -1
    /\ UNCHANGED <<m_pc, m_cycles, m_ideas, queued_content, m_k, upload_log>>
    /\ UNCHANGED <<content_queue, last_upload, sched_call, sched_now>>
    /\ UNCHANGED nonMainVars

MainNext ==
    \/ RunMainLoop
    \/ CheckDaily
    \/ ProcessIdea
    \/ DailyContentDone
    \/ StartUploadCycle
    \/ UploadStep
    \/ UploadCycleDone
    \/ MainSleep
    \/ MarkDailyGenerationNeeded

SpecMain == Init /\ [][MainNext]_vars

UploadsOf(id) == {k \in 1..Len(upload_log) : upload_log[k].id = id}

\* C23: no content item is passed to upload_to_all_platforms more than
\* once; when an upload cycle is over, the items it uploaded are out of
\* the queue and its loop went through every item of its copy.
C23_UploadedOnceAndRemoved ==
    /\ \A k \in 1..Len(upload_log) :
          Cardinality(UploadsOf(upload_log[k].id)) = 1
    /\ m_pc = "sleep" =>
          /\ m_k > Len(queued_content)
          /\ \A k \in 1..Len(upload_log) :
                upload_log[k].cycle = m_cycles =>
                   \A n \in 1..Len(content_queue) :
                      content_queue[n].id # upload_log[k].id

\* C27: when generate_daily_content has run today, nothing marked the
\* generation as needed since, and the queue holds daily_video_count
\* items or more, should_generate_daily returns False.
C27_NoSecondGenerationToday ==
    [][(/\ m_pc = "top"
        /\ m_pc' # "top"
        /\ m_generated_on = DayOf(sched_now)
        /\ Len(content_queue) >= daily_video_count)
          => sched_call'.ret = FALSE]_vars

(***************************************************************************)
(* RateLimiter.wait_if_needed for one known platform.                      *)
(*                                                                         *)
(* Time is counted in whole seconds.  A caller is a coroutine; what it     *)
(* runs between two awaits that suspend it is one step.  The limits of     *)
(* the platform are small ones, as update_rate_limits can set them.        *)
(***************************************************************************)
MaxRequests == 4          \* calls of wait_if_needed, one caller
MaxInterleaved == 3       \* calls of wait_if_needed, interleaving callers
MaxRequestsPerHour == 2   \* requests_per_hour of the platform
MaxRequestsPerDay == 3    \* requests_per_day of the platform

MinInterval == 2

HourSeconds == 3600

DaySeconds == 86400

\* self.rate_limits[platform]
rate_limits ==
    [requests_per_hour |-> MaxRequestsPerHour,
     requests_per_day |-> MaxRequestsPerDay,
     min_interval |-> MinInterval]

\* while requests and requests[0] < cutoff: requests.popleft()
RECURSIVE PopOlder(_, _)
PopOlder(requests, cutoff) ==
    IF requests # <<>> /\ requests[1] < cutoff
      THEN PopOlder(Tail(requests), cutoff)
      ELSE requests

\* RateLimiter._check_daily_limit
check_daily_limit(requests, now, max_requests) ==
    LET day_ago == now - DaySeconds
        daily_count ==
            Cardinality({k \in 1..Len(requests) : requests[k] > day_ago})
    IN  ~(daily_count >= max_requests)

\* wait_if_needed from `if not await self._check_hourly_limit(...)` to its
\* return, for the caller whose locals are `frame`: _check_hourly_limit
\* drops the old entries and either sleeps before it checks again or
\* returns True; then the daily check and _record_request(platform, now)
CheckLimits(c, frame) ==
    LET hour_ago == clock - HourSeconds
        requests == PopOlder(request_counts, hour_ago)
        oldest_request == IF requests # <<>> THEN requests[1] ELSE 0
        wait_time == hour_ago - oldest_request + 1
    IN  IF Len(requests) >= rate_limits.requests_per_hour /\ wait_time > 0
          THEN /\ request_counts' = requests
               /\ co' = [co EXCEPT ![c] =
                            [frame EXCEPT !.pc = "hour_sleep",
                                          !.wake = clock + wait_time]]
               /\ UNCHANGED <<last_request_times, grants>>
          ELSE IF ~check_daily_limit(requests, clock,
                                     rate_limits.requests_per_day)
          THEN /\ request_counts' = requests
               /\ co' = [co EXCEPT ![c] =
                            [CallerIdle EXCEPT !.platform = frame.platform]]
               /\ UNCHANGED <<last_request_times, grants>>
          ELSE /\ request_counts' = Append(requests, frame.now)
               /\ last_request_times' = frame.now
               /\ grants' = Append(grants, [time |-> clock,
                                            stamp |-> frame.now,
                                            caller |-> c])
               /\ co' = [co EXCEPT ![c] =
                            [CallerIdle EXCEPT !.platform = frame.platform,
                                               !.result = TRUE]]

\* wait_if_needed(platform) is called and runs to its first sleep or to
\* its return
WaitIfNeeded(c, most) ==
    /\ co[c].pc = "idle"
    /\ l_calls < most
    /\ l_calls' = l_calls + 1
    /\ idle_gap' = FALSE
    /\ \E platform \in {"tiktok", "unknown"} :
          LET frame == [CallerIdle EXCEPT !.platform = platform,
                                          !.now = clock]
              time_since_last == clock - last_request_times
          IN  IF platform = "unknown"
                THEN /\ co' = [co EXCEPT ![c] =
                                  [CallerIdle EXCEPT !.platform = platform,
                                                     !.result = TRUE]]
                     /\ UNCHANGED <<request_counts, last_request_times,
                                    grants>>
                ELSE IF time_since_last < rate_limits.min_interval
                THEN /\ co' = [co EXCEPT ![c] =
                                  [frame EXCEPT
                                     !.pc = "min_sleep",
                                     !.wake = clock + (rate_limits.min_interval
                                                         - time_since_last)]]
                     /\ UNCHANGED <<request_counts, last_request_times,
                                    grants>>
                ELSE CheckLimits(c, frame)
    /\ UNCHANGED clock
    /\ UNCHANGED nonLimiterVars

\* asyncio.sleep(wait_time) of the minimum interval is over
AfterMinSleep(c) ==
    /\ co[c].pc = "min_sleep"
    /\ clock >= co[c].wake
    /\ CheckLimits(c, co[c])
    /\ UNCHANGED <<clock, l_calls, idle_gap>>
    /\ UNCHANGED nonLimiterVars

\* asyncio.sleep(wait_time) of _check_hourly_limit is over:
\* return await self._check_hourly_limit(platform, max_requests)
AfterHourSleep(c) ==
    /\ co[c].pc = "hour_sleep"
    /\ clock >= co[c].wake
    /\ CheckLimits(c, co[c])
    /\ UNCHANGED <<clock, l_calls, idle_gap>>
    /\ UNCHANGED nonLimiterVars

\* RateLimiter.cleanup()
LimiterCleanup ==
    /\ request_counts' = PopOlder(request_counts, clock - DaySeconds)
    /\ request_counts' # request_counts
    /\ UNCHANGED <<clock, last_request_times, co, grants, l_calls, idle_gap>>
    /\ UNCHANGED nonLimiterVars

Sleeping(c) == co[c].pc \in {"min_sleep", "hour_sleep"}

\* the time between one call and the next
Gaps == {1, MinInterval, HourSeconds - MinInterval, HourSeconds + 1,
         DaySeconds}

\* time goes by: a second of a sleep, or a gap while nobody sleeps
Elapse(most) ==
    /\ IF \E c \in Callers : Sleeping(c)
         THEN /\ \A c \in Callers : Sleeping(c) => clock + 1 <= co[c].wake
              /\ clock' = clock + 1
              /\ UNCHANGED idle_gap
         ELSE /\ ~idle_gap
              /\ l_calls < most
              /\ \E gap \in Gaps : clock' = clock + gap
              /\ idle_gap' = TRUE
    /\ UNCHANGED <<request_counts, last_request_times, co, grants, l_calls>>
    /\ UNCHANGED nonLimiterVars

\* one caller: its next call is made when the last has returned
SequentialNext ==
    \/ WaitIfNeeded(1, MaxRequests)
    \/ AfterMinSleep(1)
    \/ AfterHourSleep(1)
    \/ LimiterCleanup
    \/ Elapse(MaxRequests)

SpecLimiter == Init /\ [][SequentialNext]_vars

\* coroutines on one event loop, interleaving at their sleeps
ConcurrentNext ==
    \/ \E c \in Callers : WaitIfNeeded(c, MaxInterleaved)
    \/ \E c \in Callers : AfterMinSleep(c)
    \/ \E c \in Callers : AfterHourSleep(c)
    \/ LimiterCleanup
    \/ Elapse(MaxInterleaved)

SpecLimiterConcurrent == Init /\ [][ConcurrentNext]_vars

\* the granted requests of the window of `seconds` that ends with grant k
GrantedWithin(k, seconds) ==
    {j \in 1..k : grants[j].time > grants[k].time - seconds}

\* C24: no 3600-second window holds more granted requests than
\* requests_per_hour.
C24_HourlyLimitKept ==
    \A k \in 1..Len(grants) :
       Cardinality(GrantedWithin(k, HourSeconds))
          <= rate_limits.requests_per_hour

\* C25: a call is not granted when requests_per_day requests were granted
\* in the 86400 seconds before it.
C25_DailyLimitKept ==
    \A k \in 1..Len(grants) :
       Cardinality(GrantedWithin(k, DaySeconds) \ {k})
          < rate_limits.requests_per_day

\* C26: for sequential callers a request is granted min_interval or more
\* after the one granted before it, and the timestamp recorded for it is
\* the time it was granted.
C26_MinIntervalBetweenGrants ==
    \A k \in 1..Len(grants) :
       /\ grants[k].stamp = grants[k].time
       /\ k > 1 => grants[k].time - grants[k - 1].time
                      >= rate_limits.min_interval

NonDecreasing(requests) ==
    \A a, b \in 1..Len(requests) : a < b => requests[a] <= requests[b]

\* C30: with interleaving callers the timestamps of request_counts are in
\* non-decreasing order in every state, and the hourly bound holds.
C30_TimestampsStayOrdered ==
    /\ NonDecreasing(request_counts)
    /\ \A k \in 1..Len(grants) :
          Cardinality(GrantedWithin(k, HourSeconds))
             <= rate_limits.requests_per_hour

====
